---- MODULE Spec2Model ----
(***************************************************************************)
(* Trace-context propagation of ddtrace/tracer/textmap.go: the carriers,   *)
(* the first-party (Datadog), B3 and W3C propagators, the propagating-tag  *)
(* and tracestate codec, and the chained propagator.                       *)
(*                                                                         *)
(* Go strings are TLA+ strings; a character is a string of length one.     *)
(* A uint64 is a tuple of four 16-bit limbs, most significant first, so    *)
(* that identifiers keep their 64-bit width.                               *)
(***************************************************************************)
EXTENDS Integers, Sequences, FiniteSets, TLC

(***************************************************************************)
(* Strings (package strings, strconv, fmt of the Go standard library).     *)
(***************************************************************************)

Char(s, i) == SubSeq(s, i, i)

\* s[from:] in Go, with from counted from 0.
SliceFrom(s, from) == SubSeq(s, from + 1, Len(s))

\* s[:to] in Go.
SliceTo(s, to) == SubSeq(s, 1, to)

HasPrefix(s, p) == Len(s) >= Len(p) /\ SubSeq(s, 1, Len(p)) = p

TrimPrefix(s, p) == IF HasPrefix(s, p) THEN SliceFrom(s, Len(p)) ELSE s

\* The positions (from 1) of the character c in s.
Positions(s, c) == {i \in 1..Len(s) : Char(s, i) = c}

\* Position (from 1) of the first character c in s, 0 when absent.
IndexOfChar(s, c) ==
    LET First(at) == IF at = {} THEN 0 ELSE CHOOSE i \in at : \A j \in at : i <= j
    IN  First(Positions(s, c))

\* The strings f[lo], ..., f[hi] one after the other.
RECURSIVE Concat(_, _, _)
Concat(f, lo, hi) ==
    IF lo > hi THEN ""
    ELSE IF lo = hi THEN f[lo]
    ELSE Concat(f, lo, (lo + hi) \div 2) \o Concat(f, (lo + hi) \div 2 + 1, hi)

\* The set of the characters of s.
CharsOf(s) == {Char(s, i) : i \in 1..Len(s)}

UpperLetters == "ABCDEFGHIJKLMNOPQRSTUVWXYZ"
LowerLetters == "abcdefghijklmnopqrstuvwxyz"

LowerOf == [i \in 1..26 |-> Char(LowerLetters, i)]
UpperOf == [i \in 1..26 |-> Char(UpperLetters, i)]
UpperPos == [c \in CharsOf(UpperLetters) |-> IndexOfChar(UpperLetters, c)]
LowerPos == [c \in CharsOf(LowerLetters) |-> IndexOfChar(LowerLetters, c)]

LowerChar(c) == IF c \in DOMAIN UpperPos THEN LowerOf[UpperPos[c]] ELSE c

UpperChar(c) == IF c \in DOMAIN LowerPos THEN UpperOf[LowerPos[c]] ELSE c

\* strings.ToLower
ToLower(s) == Concat([i \in 1..Len(s) |-> LowerChar(Char(s, i))], 1, Len(s))

\* The printable ASCII characters \x20-\x7E that the model's strings are made
\* of: the letters, the digits and this punctuation. Any other character
\* (the tab "\t" stands for them) is outside \x20-\x7E.
Digits == "0123456789"
Punctuation == " !#$%&+,-./:;<=>?@[]^_{|}~"
Printable == UpperLetters \o LowerLetters \o Digits \o Punctuation

PrintableChars == CharsOf(Printable)

IsPrintable(c) == c \in PrintableChars

\* strings.Count(s, c) for a one-character c.
Count(s, c) == Cardinality(Positions(s, c))

\* strings.LastIndex(s, c) for a one-character c: from 0, -1 when absent.
LastIndex(s, c) ==
    LET Last(at) == IF at = {} THEN -1 ELSE (CHOOSE i \in at : \A j \in at : j <= i) - 1
    IN  Last(Positions(s, c))

\* strings.Split(s, sep) for a one-character sep: always at least one piece,
\* piece k between the separators k - 1 and k.
Split(s, sep) ==
    LET Pieces(at) ==
            LET Sep(k) == IF k = 0 THEN 0
                          ELSE IF k > Cardinality(at) THEN Len(s) + 1
                          ELSE CHOOSE i \in at : Cardinality({j \in at : j <= i}) = k
            IN  [k \in 1..(Cardinality(at) + 1) |-> SubSeq(s, Sep(k - 1) + 1, Sep(k) - 1)]
    IN  Pieces(Positions(s, sep))

\* strings.Repeat
RECURSIVE Repeat(_, _)
Repeat(s, n) ==
    IF n <= 0 THEN ""
    ELSE LET Twice(half) == IF n % 2 = 1 THEN half \o half \o s ELSE half \o half
         IN  Twice(Repeat(s, n \div 2))

(***************************************************************************)
(* uint64 as four 16-bit limbs, most significant first.                    *)
(***************************************************************************)

LimbBase == 2^16

U64Zero == <<0, 0, 0, 0>>

\* The uint64 of a natural number below 2^31.
U64(n) == <<0, 0, n \div LimbBase, n % LimbBase>>

\* The limbs of x from limb i down to the most significant, times m, plus
\* the carry from the limbs below; low holds the limbs already computed.
RECURSIVE U64MulLimbs(_, _, _, _, _)
U64MulLimbs(x, m, i, carry, low) ==
    IF i = 0 THEN [val |-> low, overflow |-> carry # 0]
    ELSE LET Limb(t) ==
                U64MulLimbs(x, m, i - 1, t \div LimbBase, <<t % LimbBase>> \o low)
         IN  Limb(x[i] * m + carry)

\* x * m + d for m <= 16 and d < 16: the product and whether it left 64 bits.
U64MulAdd(x, m, d) == U64MulLimbs(x, m, 4, d, <<>>)

\* The limbs of x from limb i on, divided by m with the remainder rem of the
\* limbs above; high holds the limbs of the quotient already computed.
RECURSIVE U64DivLimbs(_, _, _, _, _)
U64DivLimbs(x, m, i, rem, high) ==
    IF i > 4 THEN [quo |-> high, rem |-> rem]
    ELSE LET Limb(t) == U64DivLimbs(x, m, i + 1, t % m, Append(high, t \div m))
         IN  Limb(rem * LimbBase + x[i])

\* x divided by m <= 16: quotient and remainder.
U64DivMod(x, m) == U64DivLimbs(x, m, 1, 0, <<>>)

HexDigits == "0123456789abcdef"

\* The value of a digit character in a base up to 16, -1 when it is none
\* (strconv accepts the letters in either case).
DigitOf == [c \in CharsOf(HexDigits) |-> IndexOfChar(HexDigits, c) - 1]

DigitVal(c, base) ==
    LET Val(l) == IF l \in DOMAIN DigitOf /\ DigitOf[l] < base THEN DigitOf[l] ELSE -1
    IN  Val(LowerChar(c))

RECURSIVE FormatDigits(_, _)
FormatDigits(x, base) ==
    IF x = U64Zero THEN ""
    ELSE LET Digit(dm) == FormatDigits(dm.quo, base) \o Char(HexDigits, dm.rem + 1)
         IN  Digit(U64DivMod(x, base))

\* strconv.FormatUint(x, base)
FormatUint(x, base) == IF x = U64Zero THEN "0" ELSE FormatDigits(x, base)

\* FormatHexPadded with the verb %0<width>d in place of %0<width>x: C2 must
\* tell the difference.
FormatDecPadded(x, width) ==
    LET Pad(h) == Repeat("0", width - Len(h)) \o h
    IN  Pad(FormatUint(x, 10))

\* fmt.Sprintf("%0<width>x", x): lower-case hex, zero-padded to width.
FormatHexPadded(x, width) ==
    LET Pad(h) == Repeat("0", width - Len(h)) \o h
    IN  Pad(FormatUint(x, 16))

RECURSIVE ParseDigits(_, _, _, _)
ParseDigits(s, base, i, acc) ==
    IF i > Len(s) THEN [ok |-> TRUE, val |-> acc]
    ELSE LET Add(ma) ==
                IF ma.overflow THEN [ok |-> FALSE, val |-> U64Zero]
                ELSE ParseDigits(s, base, i + 1, ma.val)
             Digit(d) ==
                IF d < 0 THEN [ok |-> FALSE, val |-> U64Zero]
                ELSE Add(U64MulAdd(acc, base, d))
         IN  Digit(DigitVal(Char(s, i), base))

\* strconv.ParseUint(s, base, 64): a syntax error for the empty string or a
\* character that is no digit of the base, a range error past 2^64 - 1.
ParseUint(s, base) ==
    IF Len(s) = 0 THEN [ok |-> FALSE, val |-> U64Zero]
    ELSE ParseDigits(s, base, 1, U64Zero)

\* The int of a uint64 that fits the model's integers.
U64ToInt(x) == x[3] * LimbBase + x[4]

\* strconv.Itoa
Itoa(n) == IF n < 0 THEN "-" \o FormatUint(U64(-n), 10) ELSE FormatUint(U64(n), 10)

\* strconv.Atoi: an optional sign, then decimal digits. The model's priority
\* values stay below 2^31; a magnitude of 2^31 or more is reported as a range
\* error, as Go does from 2^63 on.
Atoi(s) ==
    LET Signed(negative, p) ==
            IF ~p.ok \/ p.val[1] # 0 \/ p.val[2] # 0 \/ p.val[3] >= 32768
            THEN [ok |-> FALSE, val |-> 0]
            ELSE [ok |-> TRUE,
                  val |-> IF negative THEN -U64ToInt(p.val) ELSE U64ToInt(p.val)]
        Magnitude(signed) ==
            Signed(signed /\ Char(s, 1) = "-",
                   ParseUint(IF signed THEN SliceFrom(s, 1) ELSE s, 10))
    IN  Magnitude(Len(s) > 0 /\ Char(s, 1) \in {"+", "-"})

(***************************************************************************)
(* Go maps: a function from keys to values. Reading a missing key gives    *)
(* the zero value; ranging over a map visits its keys in an order the      *)
(* runtime chooses, so every loop over a map takes the order as an input.  *)
(***************************************************************************)

EmptyMap == [k \in {} |-> ""]

MapPut(m, k, v) == [y \in DOMAIN m \cup {k} |-> IF y = k THEN v ELSE m[y]]

MapGet(m, k) == IF k \in DOMAIN m THEN m[k] ELSE ""

\* Every sequence that enumerates the finite set S once.
RECURSIVE Orders(_)
Orders(S) ==
    IF S = {} THEN {<<>>}
    ELSE UNION {{<<x>> \o o : o \in Orders(S \ {x})} : x \in S}

(***************************************************************************)
(* Errors (ddtrace/tracer errors, named as in the source).                 *)
(***************************************************************************)

NoError == "nil"
ErrInvalidCarrier == "ErrInvalidCarrier"
ErrInvalidSpanContext == "ErrInvalidSpanContext"
ErrSpanContextNotFound == "ErrSpanContextNotFound"
ErrSpanContextCorrupted == "ErrSpanContextCorrupted"

(***************************************************************************)
(* Header names and limits.                                                *)
(***************************************************************************)

DefaultBaggageHeaderPrefix == "ot-baggage-"
DefaultTraceIDHeader == "x-datadog-trace-id"
DefaultParentIDHeader == "x-datadog-parent-id"
DefaultPriorityHeader == "x-datadog-sampling-priority"
originHeader == "x-datadog-origin"
traceTagsHeader == "x-datadog-tags"
propagationExtractMaxSize == 512
b3TraceIDHeader == "x-b3-traceid"
b3SpanIDHeader == "x-b3-spanid"
b3SampledHeader == "x-b3-sampled"
traceparentHeader == "traceparent"
tracestateHeader == "tracestate"
PriorityAutoKeep == 1

(***************************************************************************)
(* Span context and trace.                                                 *)
(*                                                                         *)
(* A trace pointer is a record whose field nil says whether it is nil.     *)
(* priority is *float64 in the trace: hasPriority says whether it is set.  *)
(* propagatingTags is a map that may be nil (tagsNil). propagationError    *)
(* is the trace tag _dd.propagation_error, "" while it is not set. mu is   *)
(* the trace's mutex: 0 while it is free, else the goroutine holding it.   *)
(***************************************************************************)

NilTrace ==
    [nil |-> TRUE, hasPriority |-> FALSE, priority |-> 0, tagsNil |-> TRUE,
     propagatingTags |-> EmptyMap, propagationError |-> "", mu |-> 0]

newTrace == [NilTrace EXCEPT !.nil = FALSE]

\* var ctx spanContext: the zero value.
ZeroSpanContext ==
    [traceID |-> U64Zero, spanID |-> U64Zero, origin |-> "",
     baggage |-> EmptyMap, updated |-> FALSE, trace |-> NilTrace]

\* (*spanContext).samplingPriority
samplingPriority(ctx) ==
    IF ctx.trace.nil THEN [p |-> 0, ok |-> FALSE]
    ELSE [p |-> IF ctx.trace.hasPriority THEN ctx.trace.priority ELSE 0,
          ok |-> ctx.trace.hasPriority]

\* (*spanContext).setSamplingPriority
setSamplingPriority(ctx, p) ==
    LET Set(t) ==
            [ctx EXCEPT !.updated = @ \/ (t.hasPriority /\ t.priority # p),
                        !.trace = [t EXCEPT !.hasPriority = TRUE, !.priority = p]]
    IN  Set(IF ctx.trace.nil THEN newTrace ELSE ctx.trace)

\* (*spanContext).setBaggageItem
setBaggageItem(ctx, k, v) == [ctx EXCEPT !.baggage = MapPut(@, k, v)]

\* (*trace).setTag(keyPropagationError, v)
setPropagationError(t, v) == [t EXCEPT !.propagationError = v]

(***************************************************************************)
(* Carriers.                                                               *)
(*                                                                         *)
(* A carrier maps a key to the sequence of its values: one value in a      *)
(* TextMapCarrier, one or more in an HTTPHeadersCarrier.                   *)
(***************************************************************************)

TextMapKind == "TextMapCarrier"
HTTPHeadersKind == "HTTPHeadersCarrier"

EmptyCarrier == [k \in {} |-> <<>>]

\* The characters net/textproto lets a header field name hold.
TokenChars == UpperLetters \o LowerLetters \o Digits \o "!#$%&+-.^_|~"

TokenCharSet == CharsOf(TokenChars)

RECURSIVE CanonicalFrom(_, _, _)
CanonicalFrom(s, i, upper) ==
    IF i > Len(s) THEN ""
    ELSE LET c == Char(s, i)
         IN  (IF upper THEN UpperChar(c) ELSE LowerChar(c))
                \o CanonicalFrom(s, i + 1, c = "-")

\* net/textproto.CanonicalMIMEHeaderKey, which http.Header.Set applies: the
\* first letter and every letter after a hyphen in upper case, the others in
\* lower case; a key holding a character that is no token character is kept.
CanonicalMIMEHeaderKey(s) ==
    IF \E i \in 1..Len(s) : Char(s, i) \notin TokenCharSet
    THEN s
    ELSE CanonicalFrom(s, 1, TRUE)

\* HTTPHeadersCarrier.Set and TextMapCarrier.Set
CarrierSet(kind, c, key, val) ==
    LET Put(k) == [y \in DOMAIN c \cup {k} |-> IF y = k THEN <<val>> ELSE c[y]]
    IN  Put(IF kind = HTTPHeadersKind THEN CanonicalMIMEHeaderKey(key) ELSE key)

\* The carrier after the Set calls of sets, a sequence of <<key, val>>.
RECURSIVE ApplySets(_, _, _)
ApplySets(kind, c, sets) ==
    IF Len(sets) = 0 THEN c
    ELSE ApplySets(kind, CarrierSet(kind, c, sets[1][1], sets[1][2]), Tail(sets))

\* The <<key, val>> pairs ForeachKey hands to its handler when the map is
\* ranged over in the order keys.
RECURSIVE ForeachKeyPairs(_, _)
ForeachKeyPairs(c, keys) ==
    IF Len(keys) = 0 THEN <<>>
    ELSE [i \in 1..Len(c[keys[1]]) |-> <<keys[1], c[keys[1]][i]>>]
            \o ForeachKeyPairs(c, Tail(keys))

(***************************************************************************)
(* Injection. An injector yields the Set calls it made on the writer, in   *)
(* order, its error, whether it panicked, and the trace it left behind.    *)
(***************************************************************************)

InjectResult(sets, err, panicked, trace) ==
    [sets |-> sets, err |-> err, panicked |-> panicked, trace |-> trace]

\* isValidPropagatableTag: a key is non-empty printable ASCII without space,
\* '=' and ','; a value is non-empty printable ASCII without ','.
isValidPropagatableTag(k, v) ==
    /\ Len(k) > 0
    /\ \A i \in 1..Len(k) :
          IsPrintable(Char(k, i)) /\ Char(k, i) \notin {" ", "=", ","}
    /\ Len(v) > 0
    /\ \A i \in 1..Len(v) : IsPrintable(Char(v, i)) /\ Char(v, i) # ","

\* The loop of marshalPropagatingTags over the tags in the order ord, from
\* position i, with the builder sb and the trace's propagation error.
RECURSIVE marshalLoop(_, _, _, _, _, _)
marshalLoop(maxLen, tags, ord, i, sb, perr) ==
    IF i > Len(ord) THEN [s |-> sb, propagationError |-> perr]
    ELSE LET k == ord[i]
             v == tags[k]
         IN  IF ~isValidPropagatableTag(k, v)
             THEN marshalLoop(maxLen, tags, ord, i + 1, sb, "encoding_error")
             ELSE IF Len(sb) + Len(k) + Len(v) > maxLen
             THEN [s |-> "", propagationError |-> "inject_max_size"]
             ELSE marshalLoop(maxLen, tags, ord, i + 1,
                              (IF Len(sb) > 0 THEN sb \o "," ELSE sb)
                                  \o k \o "=" \o v,
                              perr)

\* (*propagator).marshalPropagatingTags, the map ranged over in the order ord:
\* the string, and the trace with its propagation error.
marshalPropagatingTags(cfg, ctx, ord) ==
    IF ctx.trace.nil THEN [s |-> "", trace |-> ctx.trace]
    ELSE LET Done(r) ==
                [s |-> r.s,
                 trace |-> setPropagationError(ctx.trace, r.propagationError)]
         IN  Done(marshalLoop(cfg.MaxTagsHeaderLen, ctx.trace.propagatingTags,
                              ord, 1, "", ctx.trace.propagationError))

\* (*propagator).injectTextMap: ordB is the order the baggage is ranged over,
\* ordT the order of the propagating tags.
propagator_injectTextMap(cfg, ctx, ordB, ordT) ==
    IF ctx.traceID = U64Zero \/ ctx.spanID = U64Zero
    THEN InjectResult(<<>>, ErrInvalidSpanContext, FALSE, ctx.trace)
    ELSE LET ids  == << <<cfg.TraceHeader, FormatUint(ctx.traceID, 10)>>,
                        <<cfg.ParentHeader, FormatUint(ctx.spanID, 10)>> >>
             Prio(sp) == IF sp.ok THEN << <<cfg.PriorityHeader, Itoa(sp.p)>> >>
                         ELSE <<>>
             orig == IF ctx.origin # "" THEN << <<originHeader, ctx.origin>> >>
                     ELSE <<>>
             bag  == [i \in 1..Len(ordB) |->
                        <<cfg.BaggagePrefix \o ordB[i], ctx.baggage[ordB[i]]>>]
             Tags(sets, m) ==
                IF cfg.MaxTagsHeaderLen <= 0
                THEN InjectResult(sets, NoError, FALSE, ctx.trace)
                ELSE InjectResult(
                        sets \o (IF Len(m.s) > 0 THEN << <<traceTagsHeader, m.s>> >>
                                 ELSE <<>>),
                        NoError, FALSE, m.trace)
         IN  Tags(ids \o Prio(samplingPriority(ctx)) \o orig \o bag,
                  marshalPropagatingTags(cfg, ctx, ordT))

\* propagatorB3.injectTextMap writing x-b3-sampled = 1 for every priority
\* that is set: C16 must tell the difference.
propagatorB3_injectTextMap_SampledAlways(ctx) ==
    IF ctx.traceID = U64Zero \/ ctx.spanID = U64Zero
    THEN InjectResult(<<>>, ErrInvalidSpanContext, FALSE, ctx.trace)
    ELSE LET Sampled(sp) ==
                IF sp.ok THEN << <<b3SampledHeader, "1">> >> ELSE <<>>
         IN  InjectResult(
                << <<b3TraceIDHeader, FormatHexPadded(ctx.traceID, 16)>>,
                   <<b3SpanIDHeader, FormatHexPadded(ctx.spanID, 16)>> >>
                    \o Sampled(samplingPriority(ctx)),
                NoError, FALSE, ctx.trace)

\* propagatorB3.injectTextMap without the test of the span ID: C1 must tell
\* the difference.
propagatorB3_injectTextMap_NoSpanCheck(ctx) ==
    IF ctx.traceID = U64Zero
    THEN InjectResult(<<>>, ErrInvalidSpanContext, FALSE, ctx.trace)
    ELSE LET Sampled(sp) ==
                IF sp.ok
                THEN << <<b3SampledHeader,
                          IF sp.p >= PriorityAutoKeep THEN "1" ELSE "0">> >>
                ELSE <<>>
         IN  InjectResult(
                << <<b3TraceIDHeader, FormatHexPadded(ctx.traceID, 16)>>,
                   <<b3SpanIDHeader, FormatHexPadded(ctx.spanID, 16)>> >>
                    \o Sampled(samplingPriority(ctx)),
                NoError, FALSE, ctx.trace)

\* (*propagatorB3).injectTextMap
propagatorB3_injectTextMap(ctx) ==
    IF ctx.traceID = U64Zero \/ ctx.spanID = U64Zero
    THEN InjectResult(<<>>, ErrInvalidSpanContext, FALSE, ctx.trace)
    ELSE LET Sampled(sp) ==
                IF sp.ok
                THEN << <<b3SampledHeader,
                          IF sp.p >= PriorityAutoKeep THEN "1" ELSE "0">> >>
                ELSE <<>>
         IN  InjectResult(
                << <<b3TraceIDHeader, FormatHexPadded(ctx.traceID, 16)>>,
                   <<b3SpanIDHeader, FormatHexPadded(ctx.spanID, 16)>> >>
                    \o Sampled(samplingPriority(ctx)),
                NoError, FALSE, ctx.trace)

\* regexp.ReplaceAllString(s, "_") for a pattern c1|c2|...|[^\x20-\x7E]+ :
\* each character of singles, and each maximal run of characters outside
\* \x20-\x7E, becomes one "_".
ReplaceAllRgx(s, singles) ==
    LET InRun(i) == i >= 1 /\ ~IsPrintable(Char(s, i))
        Out(c, i) ==
            IF c \in singles THEN "_"
            ELSE IF ~IsPrintable(c) THEN (IF InRun(i - 1) THEN "" ELSE "_")
            ELSE c
    IN  Concat([i \in 1..Len(s) |-> Out(Char(s, i), i)], 1, Len(s))

\* keyRgx = ",|=|[^\x20-\x7E]+"
keyRgxReplace(s) == ReplaceAllRgx(s, {",", "="})

\* valueRgx = ",|;|:|[^\x20-\x7E]+"
valueRgxReplace(s) == ReplaceAllRgx(s, {",", ";", ":"})

\* strings.ReplaceAll(s, old, new) for one-character old and new.
ReplaceAll(s, old, new) ==
    LET Out(c) == IF c = old THEN new ELSE c
    IN  Concat([i \in 1..Len(s) |-> Out(Char(s, i))], 1, Len(s))

\* strings.SplitAfterN(s, sep, n)[0] for n # 0: all of s when n = 1 or s
\* holds no sep, else s up to and including its first sep.
SplitAfterNFirst(s, sep, n) ==
    LET First(i) == IF n = 1 \/ i = 0 THEN s ELSE SliceTo(s, i)
    IN  First(IndexOfChar(s, sep))

\* The t.<key>:<value> entry composeTracestate builds for tag k = v.
tracestateTag(k, v) ==
    "t." \o keyRgxReplace(SliceFrom(k, 6)) \o ":"
         \o ReplaceAll(valueRgxReplace(v), "=", "~")

\* The loop of composeTracestate over the propagating tags, in the order ord.
RECURSIVE tracestateTags(_, _, _, _, _)
tracestateTags(tags, ord, i, b, listLength) ==
    IF i > Len(ord) THEN [b |-> b, listLength |-> listLength]
    ELSE IF ~HasPrefix(ord[i], "_dd.p.")
    THEN tracestateTags(tags, ord, i + 1, b, listLength)
    ELSE LET Write(tag) ==
                IF Len(b) + Len(tag) <= 256 /\ listLength < 32
                THEN tracestateTags(tags, ord, i + 1, b \o ";" \o tag, listLength + 1)
                ELSE [b |-> b, listLength |-> listLength]
         IN  Write(tracestateTag(ord[i], tags[ord[i]]))

\* The loop of composeTracestate over the vendors of the old state. It
\* panics where Go does: SplitAfterN(s, ";", 0) is empty and has no element
\* 0, and s[:255-b.Len()] is out of range when b is longer than 255.
RECURSIVE tracestateVendors(_, _, _, _)
tracestateVendors(pieces, i, b, listLength) ==
    IF i > Len(pieces) THEN [s |-> b, panicked |-> FALSE]
    ELSE LET s == pieces[i]
         IN  IF HasPrefix(s, "dd=")
             THEN tracestateVendors(pieces, i + 1, b, listLength)
             ELSE IF Len(b) + Len(s) < 255
             THEN IF listLength + Count(s, ";") < 32
                  THEN tracestateVendors(pieces, i + 1, b \o "," \o s, listLength)
                  ELSE IF 32 - listLength = 0
                  THEN [s |-> "", panicked |-> TRUE]
                  ELSE tracestateVendors(pieces, i + 1,
                          b \o "," \o SplitAfterNFirst(s, ";", 32 - listLength),
                          listLength)
             ELSE IF 255 - Len(b) < 0
             THEN [s |-> "", panicked |-> TRUE]
             ELSE LET Cut(j) ==
                        [s |-> IF j # -1 THEN b \o SliceTo(s, j) ELSE b,
                         panicked |-> FALSE]
                  IN  Cut(LastIndex(SliceTo(s, 255 - Len(b)), ";"))

\* composeTracestate, the propagating tags ranged over in the order ord: the
\* string it returns, or that it panicked.
composeTracestate(ctx, priority, oldState, ord) ==
    LET Origin(b) ==
            IF ctx.origin # "" THEN b \o "o:" \o valueRgxReplace(ctx.origin) ELSE b
        Vendors(t) == tracestateVendors(Split(oldState, ","), 1, t.b, t.listLength)
    IN  Vendors(tracestateTags(ctx.trace.propagatingTags, ord, 1,
                               Origin("dd=s:" \o Itoa(priority) \o ";"),
                               IF ctx.origin # "" THEN 2 ELSE 1))

\* propagatorW3c.injectTextMap with the sampled flag set for every sampling
\* priority that is set, whatever its value.
propagatorW3c_injectTextMap_FlagsAnyPriority(ctx, ordT) ==
    IF ctx.traceID = U64Zero \/ ctx.spanID = U64Zero
    THEN InjectResult(<<>>, ErrInvalidSpanContext, FALSE, ctx.trace)
    ELSE LET Flags(sp) == IF sp.ok THEN "01" ELSE "00"
             Traceparent(sp) ==
                <<traceparentHeader,
                  "00-" \o FormatHexPadded(ctx.traceID, 32) \o "-"
                        \o FormatHexPadded(ctx.spanID, 16) \o "-" \o Flags(sp)>>
             Composed(tp, c) ==
                IF c.panicked
                THEN InjectResult(<<tp>>, NoError, TRUE, ctx.trace)
                ELSE InjectResult(<<tp, <<tracestateHeader, c.s>> >>,
                                  NoError, FALSE, ctx.trace)
             State(sp, tp, old) ==
                IF ctx.trace.nil
                THEN InjectResult(<<tp>>, NoError, TRUE, ctx.trace)
                ELSE IF ctx.updated \/ (~ctx.trace.tagsNil /\ ~HasPrefix(old, "dd="))
                THEN Composed(tp, composeTracestate(ctx, sp.p, old, ordT))
                ELSE InjectResult(<<tp, <<tracestateHeader, old>> >>,
                                  NoError, FALSE, ctx.trace)
             Priority(sp) ==
                State(sp, Traceparent(sp),
                      MapGet(ctx.trace.propagatingTags, tracestateHeader))
         IN  Priority(samplingPriority(ctx))

\* propagatorW3c.injectTextMap. ctx.trace is dereferenced without a nil
\* check: with a nil trace the call panics after traceparent is written.
propagatorW3c_injectTextMap(ctx, ordT) ==
    IF ctx.traceID = U64Zero \/ ctx.spanID = U64Zero
    THEN InjectResult(<<>>, ErrInvalidSpanContext, FALSE, ctx.trace)
    ELSE LET Flags(sp) == IF sp.ok /\ sp.p >= PriorityAutoKeep THEN "01" ELSE "00"
             Traceparent(sp) ==
                <<traceparentHeader,
                  "00-" \o FormatHexPadded(ctx.traceID, 32) \o "-"
                        \o FormatHexPadded(ctx.spanID, 16) \o "-" \o Flags(sp)>>
             Composed(tp, c) ==
                IF c.panicked
                THEN InjectResult(<<tp>>, NoError, TRUE, ctx.trace)
                ELSE InjectResult(<<tp, <<tracestateHeader, c.s>> >>,
                                  NoError, FALSE, ctx.trace)
             State(sp, tp, old) ==
                IF ctx.trace.nil
                THEN InjectResult(<<tp>>, NoError, TRUE, ctx.trace)
                ELSE IF ctx.updated \/ (~ctx.trace.tagsNil /\ ~HasPrefix(old, "dd="))
                THEN Composed(tp, composeTracestate(ctx, sp.p, old, ordT))
                ELSE InjectResult(<<tp, <<tracestateHeader, old>> >>,
                                  NoError, FALSE, ctx.trace)
             Priority(sp) ==
                State(sp, Traceparent(sp),
                      MapGet(ctx.trace.propagatingTags, tracestateHeader))
         IN  Priority(samplingPriority(ctx))

(***************************************************************************)
(* Extraction. An extractor yields the span context it returns (isNil when *)
(* it returns no context), its error, and whether it panicked.             *)
(***************************************************************************)

ExtractResult(ctx, isNil, err, panicked) ==
    [ctx |-> ctx, isNil |-> isNil, err |-> err, panicked |-> panicked]

\* parseUint64: the decimal digits of a 64-bit unsigned integer.
parseUint64(v) == ParseUint(v, 10)

\* One key=value piece of a tags header: a non-empty key before the first
\* '=' and a non-empty value after it.
IsTagPair(piece) ==
    LET Around(i) == i > 1 /\ i < Len(piece) IN Around(IndexOfChar(piece, "="))

RECURSIVE TagPairsToMap(_, _, _)
TagPairsToMap(pieces, i, m) ==
    IF i > Len(pieces) THEN m
    ELSE LET Pair(e) ==
                TagPairsToMap(pieces, i + 1,
                    MapPut(m, SliceTo(pieces[i], e - 1), SliceFrom(pieces[i], e)))
         IN  Pair(IndexOfChar(pieces[i], "="))

\* parsePropagatableTraceTags: comma-separated key=value pairs into a map;
\* no map for the empty string; an error, and no map, on a malformed piece.
parsePropagatableTraceTags(v) ==
    LET Pairs(pieces) ==
            IF \E i \in 1..Len(pieces) : ~IsTagPair(pieces[i])
            THEN [ok |-> FALSE, tagsNil |-> TRUE, tags |-> EmptyMap]
            ELSE [ok |-> TRUE, tagsNil |-> FALSE,
                  tags |-> TagPairsToMap(pieces, 1, EmptyMap)]
    IN  IF Len(v) = 0 THEN [ok |-> TRUE, tagsNil |-> TRUE, tags |-> EmptyMap]
        ELSE Pairs(Split(v, ","))

\* unmarshalPropagatingTags without the size limit: C12 must tell the
\* difference.
unmarshalPropagatingTags_NoLimit(ctx, v) ==
    LET Parsed(t, r) ==
            [ctx EXCEPT !.trace =
                [t EXCEPT !.tagsNil = r.tagsNil,
                          !.propagatingTags = r.tags,
                          !.propagationError =
                              IF r.ok THEN @ ELSE "decoding_error"]]
    IN  Parsed(IF ctx.trace.nil THEN newTrace ELSE ctx.trace,
               parsePropagatableTraceTags(v))

\* unmarshalPropagatingTags
unmarshalPropagatingTags(ctx, v) ==
    LET Parsed(t, r) ==
            IF Len(v) > propagationExtractMaxSize
            THEN [ctx EXCEPT !.trace = setPropagationError(t, "extract_max_size")]
            ELSE [ctx EXCEPT !.trace =
                    [t EXCEPT !.tagsNil = r.tagsNil,
                              !.propagatingTags = r.tags,
                              !.propagationError =
                                  IF r.ok THEN @ ELSE "decoding_error"]]
    IN  Parsed(IF ctx.trace.nil THEN newTrace ELSE ctx.trace,
               parsePropagatableTraceTags(v))

\* The first-party handler comparing the key as the carrier gives it, not
\* in lower case.
propagator_handler_CaseSensitive(cfg, ctx, k, v) ==
    LET TraceID(r) ==
            IF r.ok THEN [ctx |-> [ctx EXCEPT !.traceID = r.val], err |-> NoError]
            ELSE [ctx |-> ctx, err |-> ErrSpanContextCorrupted]
        SpanID(r) ==
            IF r.ok THEN [ctx |-> [ctx EXCEPT !.spanID = r.val], err |-> NoError]
            ELSE [ctx |-> ctx, err |-> ErrSpanContextCorrupted]
        Priority(r) ==
            IF r.ok THEN [ctx |-> setSamplingPriority(ctx, r.val), err |-> NoError]
            ELSE [ctx |-> ctx, err |-> ErrSpanContextCorrupted]
        Handle(key) ==
        IF key = cfg.TraceHeader THEN TraceID(parseUint64(v))
        ELSE IF key = cfg.ParentHeader THEN SpanID(parseUint64(v))
        ELSE IF key = cfg.PriorityHeader THEN Priority(Atoi(v))
        ELSE IF key = originHeader
        THEN [ctx |-> [ctx EXCEPT !.origin = v], err |-> NoError]
        ELSE IF key = traceTagsHeader
        THEN [ctx |-> unmarshalPropagatingTags(ctx, v), err |-> NoError]
        ELSE IF HasPrefix(key, cfg.BaggagePrefix)
        THEN [ctx |-> setBaggageItem(ctx, TrimPrefix(key, cfg.BaggagePrefix), v),
              err |-> NoError]
        ELSE [ctx |-> ctx, err |-> NoError]
    IN  Handle(k)

\* The handler (*propagator).extractTextMap gives to ForeachKey: the context
\* after the pair k, v and the error the handler returns.
propagator_handler(cfg, ctx, k, v) ==
    LET TraceID(r) ==
            IF r.ok THEN [ctx |-> [ctx EXCEPT !.traceID = r.val], err |-> NoError]
            ELSE [ctx |-> ctx, err |-> ErrSpanContextCorrupted]
        SpanID(r) ==
            IF r.ok THEN [ctx |-> [ctx EXCEPT !.spanID = r.val], err |-> NoError]
            ELSE [ctx |-> ctx, err |-> ErrSpanContextCorrupted]
        Priority(r) ==
            IF r.ok THEN [ctx |-> setSamplingPriority(ctx, r.val), err |-> NoError]
            ELSE [ctx |-> ctx, err |-> ErrSpanContextCorrupted]
        Handle(key) ==
        IF key = cfg.TraceHeader THEN TraceID(parseUint64(v))
        ELSE IF key = cfg.ParentHeader THEN SpanID(parseUint64(v))
        ELSE IF key = cfg.PriorityHeader THEN Priority(Atoi(v))
        ELSE IF key = originHeader
        THEN [ctx |-> [ctx EXCEPT !.origin = v], err |-> NoError]
        ELSE IF key = traceTagsHeader
        THEN [ctx |-> unmarshalPropagatingTags(ctx, v), err |-> NoError]
        ELSE IF HasPrefix(key, cfg.BaggagePrefix)
        THEN [ctx |-> setBaggageItem(ctx, TrimPrefix(key, cfg.BaggagePrefix), v),
              err |-> NoError]
        ELSE [ctx |-> ctx, err |-> NoError]
    IN  Handle(ToLower(k))

\* ForeachKey going on after an error of the handler and returning nil: C14
\* must tell the difference.
RECURSIVE propagator_foreach_IgnoreErrors(_, _, _, _)
propagator_foreach_IgnoreErrors(cfg, pairs, i, ctx) ==
    IF i > Len(pairs) THEN [ctx |-> ctx, err |-> NoError]
    ELSE LET Step(h) == propagator_foreach_IgnoreErrors(cfg, pairs, i + 1, h.ctx)
         IN  Step(propagator_handler(cfg, ctx, pairs[i][1], pairs[i][2]))

\* ForeachKey with the first-party handler over pairs, from position i: it
\* stops at the first error.
RECURSIVE propagator_foreach(_, _, _, _)
propagator_foreach(cfg, pairs, i, ctx) ==
    IF i > Len(pairs) THEN [ctx |-> ctx, err |-> NoError]
    ELSE LET Step(h) ==
                IF h.err # NoError THEN h
                ELSE propagator_foreach(cfg, pairs, i + 1, h.ctx)
         IN  Step(propagator_handler(cfg, ctx, pairs[i][1], pairs[i][2]))

\* propagator.extractTextMap without the exception for the origin
\* "synthetics": C6 must tell the difference.
propagator_extractTextMap_NoSynthetics(cfg, pairs) ==
    LET Visited(r) ==
            IF r.err # NoError
            THEN ExtractResult(ZeroSpanContext, TRUE, r.err, FALSE)
            ELSE IF r.ctx.traceID = U64Zero \/ r.ctx.spanID = U64Zero
            THEN ExtractResult(ZeroSpanContext, TRUE, ErrSpanContextNotFound, FALSE)
            ELSE ExtractResult(r.ctx, FALSE, NoError, FALSE)
    IN  Visited(propagator_foreach(cfg, pairs, 1, ZeroSpanContext))

\* (*propagator).extractTextMap over the pairs ForeachKey visits.
propagator_extractTextMap(cfg, pairs) ==
    LET Visited(r) ==
            IF r.err # NoError
            THEN ExtractResult(ZeroSpanContext, TRUE, r.err, FALSE)
            ELSE IF r.ctx.traceID = U64Zero
                    \/ (r.ctx.spanID = U64Zero /\ r.ctx.origin # "synthetics")
            THEN ExtractResult(ZeroSpanContext, TRUE, ErrSpanContextNotFound, FALSE)
            ELSE ExtractResult(r.ctx, FALSE, NoError, FALSE)
    IN  Visited(propagator_foreach(cfg, pairs, 1, ZeroSpanContext))

\* The handler of propagatorB3.extractTextMap parsing all of x-b3-traceid:
\* C15 must tell the difference.
propagatorB3_handler_NoCut(ctx, k, v) ==
    LET TraceID(r) ==
            IF r.ok THEN [ctx |-> [ctx EXCEPT !.traceID = r.val], err |-> NoError]
            ELSE [ctx |-> ctx, err |-> ErrSpanContextCorrupted]
        SpanID(r) ==
            IF r.ok THEN [ctx |-> [ctx EXCEPT !.spanID = r.val], err |-> NoError]
            ELSE [ctx |-> ctx, err |-> ErrSpanContextCorrupted]
        Priority(r) ==
            IF r.ok THEN [ctx |-> setSamplingPriority(ctx, r.val), err |-> NoError]
            ELSE [ctx |-> ctx, err |-> ErrSpanContextCorrupted]
        Handle(key) ==
        IF key = b3TraceIDHeader THEN TraceID(ParseUint(v, 16))
        ELSE IF key = b3SpanIDHeader THEN SpanID(ParseUint(v, 16))
        ELSE IF key = b3SampledHeader THEN Priority(Atoi(v))
        ELSE [ctx |-> ctx, err |-> NoError]
    IN  Handle(ToLower(k))

\* The handler (*propagatorB3).extractTextMap gives to ForeachKey.
propagatorB3_handler(ctx, k, v) ==
    LET TraceID(r) ==
            IF r.ok THEN [ctx |-> [ctx EXCEPT !.traceID = r.val], err |-> NoError]
            ELSE [ctx |-> ctx, err |-> ErrSpanContextCorrupted]
        SpanID(r) ==
            IF r.ok THEN [ctx |-> [ctx EXCEPT !.spanID = r.val], err |-> NoError]
            ELSE [ctx |-> ctx, err |-> ErrSpanContextCorrupted]
        Priority(r) ==
            IF r.ok THEN [ctx |-> setSamplingPriority(ctx, r.val), err |-> NoError]
            ELSE [ctx |-> ctx, err |-> ErrSpanContextCorrupted]
        Handle(key) ==
        IF key = b3TraceIDHeader
        THEN TraceID(ParseUint(IF Len(v) > 16 THEN SliceFrom(v, Len(v) - 16) ELSE v,
                               16))
        ELSE IF key = b3SpanIDHeader THEN SpanID(ParseUint(v, 16))
        ELSE IF key = b3SampledHeader THEN Priority(Atoi(v))
        ELSE [ctx |-> ctx, err |-> NoError]
    IN  Handle(ToLower(k))

RECURSIVE propagatorB3_foreach(_, _, _)
propagatorB3_foreach(pairs, i, ctx) ==
    IF i > Len(pairs) THEN [ctx |-> ctx, err |-> NoError]
    ELSE LET Step(h) ==
                IF h.err # NoError THEN h
                ELSE propagatorB3_foreach(pairs, i + 1, h.ctx)
         IN  Step(propagatorB3_handler(ctx, pairs[i][1], pairs[i][2]))

\* propagatorB3.extractTextMap without the test of the identifiers: C5 must
\* tell the difference.
propagatorB3_extractTextMap_NoCheck(pairs) ==
    LET Visited(r) ==
            IF r.err # NoError
            THEN ExtractResult(ZeroSpanContext, TRUE, r.err, FALSE)
            ELSE ExtractResult(r.ctx, FALSE, NoError, FALSE)
    IN  Visited(propagatorB3_foreach(pairs, 1, ZeroSpanContext))

\* (*propagatorB3).extractTextMap over the pairs ForeachKey visits.
propagatorB3_extractTextMap(pairs) ==
    LET Visited(r) ==
            IF r.err # NoError
            THEN ExtractResult(ZeroSpanContext, TRUE, r.err, FALSE)
            ELSE IF r.ctx.traceID = U64Zero \/ r.ctx.spanID = U64Zero
            THEN ExtractResult(ZeroSpanContext, TRUE, ErrSpanContextNotFound, FALSE)
            ELSE ExtractResult(r.ctx, FALSE, NoError, FALSE)
    IN  Visited(propagatorB3_foreach(pairs, 1, ZeroSpanContext))

\* (*propagatorW3c).Extract: panic("implement me").
propagatorW3c_Extract(pairs) ==
    ExtractResult(ZeroSpanContext, TRUE, NoError, TRUE)

(***************************************************************************)
(* Propagators and the chained propagator.                                 *)
(*                                                                         *)
(* A Propagator is a record: kind names the implementation, cfg is the     *)
(* *PropagatorConfig of the first-party propagator. The kind "other" is an *)
(* implementation handed to NewPropagator that takes no text-map carrier.  *)
(***************************************************************************)

DatadogKind == "datadog"
B3Kind == "b3"
W3cKind == "w3c"
OtherKind == "other"

\* NewPropagator's defaults for a config that sets only MaxTagsHeaderLen, B3.
PropagatorConfig(maxTagsHeaderLen, b3) ==
    [BaggagePrefix |-> DefaultBaggageHeaderPrefix,
     TraceHeader |-> DefaultTraceIDHeader,
     ParentHeader |-> DefaultParentIDHeader,
     PriorityHeader |-> DefaultPriorityHeader,
     MaxTagsHeaderLen |-> maxTagsHeaderLen,
     B3 |-> b3]

Propagator(kind, cfg) == [kind |-> kind, cfg |-> cfg]

\* Propagator.Inject with a text-map writer: the type switch of each
\* implementation takes its TextMapWriter case.
Propagator_Inject(p, ctx, ordB, ordT) ==
    IF p.kind = DatadogKind THEN propagator_injectTextMap(p.cfg, ctx, ordB, ordT)
    ELSE IF p.kind = B3Kind THEN propagatorB3_injectTextMap(ctx)
    ELSE IF p.kind = W3cKind THEN propagatorW3c_injectTextMap(ctx, ordT)
    ELSE InjectResult(<<>>, ErrInvalidCarrier, FALSE, ctx.trace)

\* Propagator.Extract with a text-map reader.
Propagator_Extract(p, pairs) ==
    IF p.kind = DatadogKind THEN propagator_extractTextMap(p.cfg, pairs)
    ELSE IF p.kind = B3Kind THEN propagatorB3_extractTextMap(pairs)
    ELSE IF p.kind = W3cKind THEN propagatorW3c_Extract(pairs)
    ELSE ExtractResult(ZeroSpanContext, TRUE, ErrInvalidCarrier, FALSE)

\* One call made by the chain: the propagator, what it returned, the Set
\* calls it made.
Call(p, err, panicked, sets, isNil, ctx) ==
    [prop |-> p, err |-> err, panicked |-> panicked, sets |-> sets,
     isNil |-> isNil, ctx |-> ctx]

\* chainedPropagator.Inject going on after an injector's error, returning the
\* last error: C4 must tell the difference.
RECURSIVE chainedPropagator_InjectFrom_NoAbort(_, _, _, _, _)
chainedPropagator_InjectFrom_NoAbort(injectors, i, ctx, ords, calls) ==
    IF i > Len(injectors)
    THEN [err |-> IF Len(calls) = 0 THEN NoError ELSE calls[Len(calls)].err,
          panicked |-> FALSE, trace |-> ctx.trace, calls |-> calls]
    ELSE LET Step(r, cs) ==
                IF r.panicked
                THEN [err |-> r.err, panicked |-> r.panicked, trace |-> r.trace,
                      calls |-> cs]
                ELSE chainedPropagator_InjectFrom_NoAbort(injectors, i + 1,
                         [ctx EXCEPT !.trace = r.trace], ords, cs)
             Called(r) ==
                Step(r, Append(calls, Call(injectors[i], r.err, r.panicked, r.sets,
                                           TRUE, ZeroSpanContext)))
         IN  Called(Propagator_Inject(injectors[i], ctx, ords[i].ordB, ords[i].ordT))

\* The loop of (*chainedPropagator).Inject from injector i on: ords[i] gives
\* the map orders of the i-th call, calls collects the calls made.
RECURSIVE chainedPropagator_InjectFrom(_, _, _, _, _)
chainedPropagator_InjectFrom(injectors, i, ctx, ords, calls) ==
    IF i > Len(injectors)
    THEN [err |-> NoError, panicked |-> FALSE, trace |-> ctx.trace, calls |-> calls]
    ELSE LET Step(r, cs) ==
                IF r.panicked \/ r.err # NoError
                THEN [err |-> r.err, panicked |-> r.panicked, trace |-> r.trace,
                      calls |-> cs]
                ELSE chainedPropagator_InjectFrom(injectors, i + 1,
                         [ctx EXCEPT !.trace = r.trace], ords, cs)
             Called(r) ==
                Step(r, Append(calls, Call(injectors[i], r.err, r.panicked, r.sets,
                                           TRUE, ZeroSpanContext)))
         IN  Called(Propagator_Inject(injectors[i], ctx, ords[i].ordB, ords[i].ordT))

\* (*chainedPropagator).Inject
chainedPropagator_Inject(injectors, ctx, ords) ==
    chainedPropagator_InjectFrom(injectors, 1, ctx, ords, <<>>)

\* The Set calls of a sequence of calls, in order.
RECURSIVE CallSets(_)
CallSets(calls) ==
    IF Len(calls) = 0 THEN <<>> ELSE calls[1].sets \o CallSets(Tail(calls))

\* chainedPropagator.Extract going on to the next extractor after any error:
\* C3 must tell the difference.
RECURSIVE chainedPropagator_ExtractFrom_SkipErrors(_, _, _, _)
chainedPropagator_ExtractFrom_SkipErrors(extractors, i, visits, calls) ==
    IF i > Len(extractors)
    THEN [res |-> ExtractResult(ZeroSpanContext, TRUE, ErrSpanContextNotFound, FALSE),
          calls |-> calls]
    ELSE LET Step(r, cs) ==
                IF r.panicked THEN [res |-> r, calls |-> cs]
                ELSE IF ~r.isNil
                THEN [res |-> ExtractResult(r.ctx, FALSE, NoError, FALSE), calls |-> cs]
                ELSE chainedPropagator_ExtractFrom_SkipErrors(extractors, i + 1,
                                                              visits, cs)
             Called(r) ==
                Step(r, Append(calls, Call(extractors[i], r.err, r.panicked, <<>>,
                                           r.isNil, r.ctx)))
         IN  Called(Propagator_Extract(extractors[i], visits[i]))

\* The loop of (*chainedPropagator).Extract from extractor i on: visits[i] is
\* the sequence of pairs ForeachKey hands to the i-th extractor.
RECURSIVE chainedPropagator_ExtractFrom(_, _, _, _)
chainedPropagator_ExtractFrom(extractors, i, visits, calls) ==
    IF i > Len(extractors)
    THEN [res |-> ExtractResult(ZeroSpanContext, TRUE, ErrSpanContextNotFound, FALSE),
          calls |-> calls]
    ELSE LET Step(r, cs) ==
                IF r.panicked THEN [res |-> r, calls |-> cs]
                ELSE IF ~r.isNil
                THEN [res |-> ExtractResult(r.ctx, FALSE, NoError, FALSE), calls |-> cs]
                ELSE IF r.err = ErrSpanContextNotFound
                THEN chainedPropagator_ExtractFrom(extractors, i + 1, visits, cs)
                ELSE [res |-> ExtractResult(ZeroSpanContext, TRUE, r.err, FALSE),
                      calls |-> cs]
             Called(r) ==
                Step(r, Append(calls, Call(extractors[i], r.err, r.panicked, <<>>,
                                           r.isNil, r.ctx)))
         IN  Called(Propagator_Extract(extractors[i], visits[i]))

\* (*chainedPropagator).Extract
chainedPropagator_Extract(extractors, visits) ==
    chainedPropagator_ExtractFrom(extractors, 1, visits, <<>>)

(***************************************************************************)
(* The state machine: a span context is injected into a carrier by one     *)
(* propagator or by a chain, and a carrier is extracted from.              *)
(***************************************************************************)

VARIABLES
    pc,           \* "start", "injected", "done" or "panicked"
    ctx,          \* the span context handed to Inject
    carrierKind,  \* the concrete type of the carrier
    carrier,      \* the carrier's contents
    log           \* the operations performed so far, oldest first

vars == <<pc, ctx, carrierKind, carrier, log>>

\* Bounds of the inputs.
MaxHeaderLen == 4   \* cfg.MaxTagsHeaderLen ranges over 0..MaxHeaderLen
MaxBaggage == 2     \* baggage items of a context
MaxTags == 2        \* propagating tags of a trace

Max64 == <<65535, 65535, 65535, 65535>>

IdPairs == {<<U64Zero, U64(52)>>, <<U64(42), U64Zero>>, <<U64(42), U64(52)>>,
            <<Max64, Max64>>}

\* ext.PriorityUserReject .. ext.PriorityUserKeep
Priorities == {-1, 0, 1, 2}

Origins == {"", "synthetics"}

BaggagePool ==
    [k \in {"k", "Key", "key"} |->
        IF k = "k" THEN "v" ELSE IF k = "Key" THEN "Val ue" ELSE "W, x=Y"]

TagPool ==
    [k \in {"_dd.p.a", "b", "c d", "tracestate"} |->
        IF k = "_dd.p.a" THEN "x=1"
        ELSE IF k = "b" THEN "2"
        ELSE IF k = "c d" THEN "3"
        ELSE "dd=s:1;o:y,k=v"]

\* The maps of at most n entries of pool.
SubMaps(pool, n) ==
    {[k \in S |-> pool[k]] : S \in {T \in SUBSET DOMAIN pool : Cardinality(T) <= n}}

TraceWith(hasPriority, priority, tagsNil, tags) ==
    [newTrace EXCEPT !.hasPriority = hasPriority, !.priority = priority,
                     !.tagsNil = tagsNil, !.propagatingTags = tags]

SpanContext(ids, origin, baggage, updated, trace) ==
    [traceID |-> ids[1], spanID |-> ids[2], origin |-> origin,
     baggage |-> baggage, updated |-> updated, trace |-> trace]

\* Traces without propagating tags: none, one without a priority, one per
\* priority.
PlainTraces ==
    {NilTrace, newTrace} \cup {TraceWith(TRUE, p, TRUE, EmptyMap) : p \in Priorities}

\* The contexts handed to Inject: every identifier pair, trace and origin
\* without baggage and tags; the baggage of a valid context; the propagating
\* tags of a valid context, updated or not since extraction.
CtxSet ==
    {SpanContext(ids, o, EmptyMap, FALSE, t) :
        ids \in IdPairs, o \in Origins, t \in PlainTraces}
    \cup
    {SpanContext(<<U64(42), U64(52)>>, "", b, FALSE, t) :
        b \in SubMaps(BaggagePool, MaxBaggage),
        t \in {NilTrace, TraceWith(TRUE, 1, TRUE, EmptyMap)}}
    \cup
    {SpanContext(<<U64(42), U64(52)>>, o, EmptyMap, u, TraceWith(hp, 1, FALSE, m)) :
        o \in Origins, u \in BOOLEAN, hp \in BOOLEAN, m \in SubMaps(TagPool, MaxTags)}

BaseCtx ==
    SpanContext(<<U64(42), U64(52)>>, "", EmptyMap, FALSE,
                TraceWith(TRUE, 1, TRUE, EmptyMap))

\* http.Header.Add, by which the headers of an incoming request are stored.
CarrierAdd(kind, c, key, val) ==
    LET Add(k) ==
            [y \in DOMAIN c \cup {k} |->
                IF y = k THEN (IF k \in DOMAIN c THEN Append(c[k], val) ELSE <<val>>)
                ELSE c[y]]
    IN  IF kind = HTTPHeadersKind
        THEN Add(CanonicalMIMEHeaderKey(key))
        ELSE CarrierSet(kind, c, key, val)

RECURSIVE CarrierOf(_, _, _)
CarrierOf(kind, c, headers) ==
    IF Len(headers) = 0 THEN c
    ELSE CarrierOf(kind, CarrierAdd(kind, c, headers[1][1], headers[1][2]),
                   Tail(headers))

\* A tags header value of n characters, one well-formed pair.
LongTagsValue(n) == "_dd.p.a=" \o Repeat("1", n - 8)

\* The header lists of incoming carriers.
IncomingHeaders ==
    { << <<"x-datadog-trace-id", "42">>, <<"x-datadog-parent-id", "52">>,
         <<"x-datadog-sampling-priority", "1">>,
         <<"x-datadog-tags", LongTagsValue(propagationExtractMaxSize + 1)>> >>,
      << <<"x-datadog-trace-id", "42">>, <<"x-datadog-parent-id", "52">>,
         <<"x-datadog-tags", LongTagsValue(propagationExtractMaxSize)>> >>,
      << <<"x-datadog-trace-id", "42">>, <<"x-datadog-parent-id", "52">>,
         <<"x-datadog-sampling-priority", "2">>, <<"ot-baggage-k", "v">> >>,
      << <<"x-datadog-trace-id", "42">>, <<"x-datadog-origin", "synthetics">> >>,
      << <<"x-datadog-trace-id", "42">>, <<"x-datadog-origin", "rum">> >>,
      << <<"X-Datadog-Trace-Id", "42">>, <<"X-Datadog-Origin", "Synthetics">> >>,
      << <<"x-datadog-trace-id", "0">>, <<"x-datadog-parent-id", "52">> >>,
      << <<"x-datadog-trace-id", "4x2">>, <<"x-datadog-parent-id", "52">> >>,
      << <<"x-datadog-trace-id", "18446744073709551616">>,
         <<"x-datadog-parent-id", "52">> >>,
      << <<"x-datadog-trace-id", "42">>, <<"x-datadog-parent-id", "52">>,
         <<"x-datadog-sampling-priority", "keep">> >>,
      << <<"x-datadog-trace-id", "42">>, <<"x-datadog-parent-id", "52">>,
         <<"x-datadog-tags", "_dd.p.a=1,b">> >>,
      << <<"X-Datadog-Trace-Id", "7">>, <<"x-datadog-trace-id", "8">>,
         <<"x-datadog-parent-id", "52">> >>,
      << <<"x-b3-traceid", "000000000000002a">>,
         <<"x-b3-spanid", "0000000000000034">>, <<"x-b3-sampled", "1">> >>,
      << <<"x-b3-traceid", "1000000000000002a">>,
         <<"x-b3-spanid", "0000000000000034">> >>,
      << <<"x-b3-traceid", "2a">>, <<"x-b3-spanid", "10000000000000034">> >>,
      << <<"x-b3-traceid", "2a">>, <<"x-b3-spanid", "zz">> >>,
      << <<"x-b3-traceid", "2a">>, <<"x-b3-spanid", "34">>, <<"x-b3-sampled", "yes">> >>,
      << <<"x-b3-traceid", "zz000000000000002a">>, <<"x-b3-spanid", "34">>,
         <<"x-b3-sampled", "0">> >>,
      << <<"x-b3-traceid", "00000000000000zz">>, <<"x-b3-spanid", "34">> >>,
      << <<"x-datadog-trace-id", "42">>, <<"x-datadog-parent-id", "5 2">> >>,
      << <<"x-datadog-trace-id", "42">>, <<"x-datadog-parent-id", "52">>,
         <<"x-b3-traceid", "7">>, <<"x-b3-spanid", "8">> >>,
      << <<"x-datadog-trace-id", "4x2">>, <<"x-b3-traceid", "7">>,
         <<"x-b3-spanid", "8">> >>,
      << <<"content-type", "text/plain">>, <<"ot-baggage-k", "v">> >>,
      << <<"content-type", "text/plain">> >> }

Kinds == {TextMapKind, HTTPHeadersKind}

\* The orders in which ForeachKey may visit the keys of carrier c. The
\* handlers write a field of the context that the lower-cased key alone
\* decides, so two visits whose keys differ in more than letter case commute
\* and only the order among keys equal up to letter case is chosen; the
\* groups themselves are visited in one fixed order.
RECURSIVE GroupOrders(_)
GroupOrders(groups) ==
    IF groups = {} THEN {<<>>}
    ELSE LET g == CHOOSE x \in groups : TRUE
         IN  {o1 \o o2 : o1 \in Orders(g), o2 \in GroupOrders(groups \ {g})}

VisitOrders(c) ==
    LET Groups(low) == {{k \in DOMAIN c : low[k] = low[j]} : j \in DOMAIN c}
    IN  GroupOrders(Groups([k \in DOMAIN c |-> ToLower(k)]))

\* The map orders of one Inject call on context x.
OrdPairs(x) ==
    {[ordB |-> ob, ordT |-> ot] :
        ob \in Orders(DOMAIN x.baggage),
        ot \in Orders(DOMAIN x.trace.propagatingTags)}

ChainCfg == PropagatorConfig(MaxHeaderLen, FALSE)

DD == Propagator(DatadogKind, ChainCfg)
B3 == Propagator(B3Kind, ChainCfg)
W3C == Propagator(W3cKind, ChainCfg)
Other == Propagator(OtherKind, ChainCfg)

\* The injector and extractor lists of the chains.
Chains ==
    {<<>>, <<DD>>, <<DD, B3>>, <<B3, DD>>, <<DD, Other, B3>>, <<B3, W3C, DD>>}

Operation(op, props, x, before, after, err, panicked, sets, out, calls) ==
    [op |-> op, props |-> props, ctx |-> x, before |-> before, after |-> after,
     err |-> err, panicked |-> panicked, sets |-> sets, out |-> out,
     calls |-> calls]

NoOut == ExtractResult(ZeroSpanContext, TRUE, NoError, FALSE)

Init ==
    /\ pc = "start"
    /\ log = <<>>
    /\ carrierKind \in Kinds
    /\ \/ ctx \in CtxSet /\ carrier = EmptyCarrier
       \/ /\ ctx \in {ZeroSpanContext, BaseCtx}
          /\ carrier \in {CarrierOf(carrierKind, EmptyCarrier, h) : h \in IncomingHeaders}

\* Propagator.Inject(ctx, carrier) called on the propagator p.
Inject(p, ord) ==
    /\ pc = "start"
    /\ \E r \in {Propagator_Inject(p, ctx, ord.ordB, ord.ordT)} :
      \E after \in {ApplySets(carrierKind, carrier, r.sets)} :
        /\ pc' = IF r.panicked THEN "panicked" ELSE "injected"
        /\ ctx' = [ctx EXCEPT !.trace = r.trace]
        /\ carrier' = after
        /\ log' = Append(log, Operation("Inject", <<p>>, ctx, carrier, after, r.err,
                                        r.panicked, r.sets, NoOut, <<>>))
        /\ UNCHANGED carrierKind

InjectDatadog ==
    /\ pc = "start"
    /\ \E maxLen \in 0..MaxHeaderLen, ord \in OrdPairs(ctx) :
        Inject(Propagator(DatadogKind, PropagatorConfig(maxLen, FALSE)), ord)

InjectB3 == pc = "start" /\ \E ord \in OrdPairs(ctx) : Inject(B3, ord)

InjectW3C == pc = "start" /\ \E ord \in OrdPairs(ctx) : Inject(W3C, ord)

\* The map orders of the Inject calls of a chain on context x, one per
\* injector. Only the first-party and the W3C injector range over a map, so
\* the order given to any other injector is fixed.
ChainOrds(chain, x) ==
    LET fixed == CHOOSE o \in OrdPairs(x) : TRUE
    IN  {f \in [1..Len(chain) -> OrdPairs(x)] :
            \A i \in 1..Len(chain) :
                chain[i].kind \in {B3Kind, OtherKind} => f[i] = fixed}

\* (*chainedPropagator).Inject(ctx, carrier) on a chain of injectors.
ChainInject ==
    /\ pc = "start"
    /\ \E chain \in Chains :
      \E ords \in ChainOrds(chain, ctx) :
        \E r \in {chainedPropagator_Inject(chain, ctx, ords)} :
        \E sets \in {CallSets(r.calls)} :
        \E after \in {ApplySets(carrierKind, carrier, sets)} :
            /\ pc' = IF r.panicked THEN "panicked" ELSE "injected"
            /\ ctx' = [ctx EXCEPT !.trace = r.trace]
            /\ carrier' = after
            /\ log' = Append(log, Operation("ChainInject", chain, ctx, carrier, after,
                                            r.err, r.panicked, sets, NoOut, r.calls))
            /\ UNCHANGED carrierKind

\* A carrier that this process has injected into is read back by the peer's
\* propagator of the same format, as the tracers of the two processes are
\* configured alike; an incoming carrier is read by any propagator.
Peer(op, kinds) ==
    \/ pc = "start"
    \/ /\ pc = "injected"
       /\ log[1].op = op
       /\ [i \in 1..Len(log[1].props) |-> log[1].props[i].kind] = kinds

\* Propagator.Extract(carrier) called on the propagator p.
Extract(p) ==
    /\ Peer("Inject", <<p.kind>>)
    /\ \E keys \in VisitOrders(carrier) :
        \E r \in {Propagator_Extract(p, ForeachKeyPairs(carrier, keys))} :
            /\ pc' = IF r.panicked THEN "panicked" ELSE "done"
            /\ log' = Append(log, Operation("Extract", <<p>>, ctx, carrier, carrier,
                                            r.err, r.panicked, <<>>, r, <<>>))
            /\ UNCHANGED <<ctx, carrierKind, carrier>>

ExtractDatadog == Extract(DD)

ExtractB3 == Extract(B3)

ExtractW3C == Extract(W3C)

\* (*chainedPropagator).Extract(carrier) on a chain of extractors.
ChainExtract ==
    /\ pc \in {"start", "injected"}
    /\ \E chain \in {c \in Chains :
                    Peer("ChainInject", [i \in 1..Len(c) |-> c[i].kind])} :
      \E visit \in {VisitOrders(carrier)} :
      \E orders \in [1..Len(chain) -> visit] :
        \E r \in {chainedPropagator_Extract(chain,
                    [i \in 1..Len(chain) |-> ForeachKeyPairs(carrier, orders[i])])} :
            /\ pc' = IF r.res.panicked THEN "panicked" ELSE "done"
            /\ log' = Append(log, Operation("ChainExtract", chain, ctx, carrier,
                                            carrier, r.res.err, r.res.panicked, <<>>,
                                            r.res, r.calls))
            /\ UNCHANGED <<ctx, carrierKind, carrier>>

Next ==
    \/ InjectDatadog
    \/ InjectB3
    \/ InjectW3C
    \/ ChainInject
    \/ ExtractDatadog
    \/ ExtractB3
    \/ ExtractW3C
    \/ ChainExtract

Spec == Init /\ [][Next]_vars

(***************************************************************************)
(* The second state machine: composeTracestate, as propagatorW3c's          *)
(* injectTextMap calls it, applied again and again to one span context.    *)
(* The context holds long and many propagating tags, and the previous      *)
(* tracestate under the tag "tracestate".                                  *)
(***************************************************************************)

MaxCalls == 2    \* calls of composeTracestate on one context
ManyTags == 32   \* propagating tags of the largest context

TsPriorities == {-1, 1}

TsOrigins == {"", "rum", "a,b;c:d=e", Repeat("o", 250)}

\* Tags as <<key, value>>: short, with characters that are replaced, three
\* long values around the size limit, and one that is not propagated.
TsTagPairs ==
    {<<"_dd.p.a", "1">>, <<"_dd.p.b", "x=y;z\t\tw">>, <<"other", "3">>}
        \cup {<<"_dd.p.c", Repeat("v", n)>> : n \in {244, 245, 246}}

TsSmallMaps ==
    {[k \in {pr[1] : pr \in S} |-> (CHOOSE pr \in S : pr[1] = k)[2]] :
        S \in {T \in SUBSET TsTagPairs :
                /\ Cardinality(T) <= MaxTags
                /\ \A x, y \in T : x[1] = y[1] => x = y}}

ManyTagKey(i) == "_dd.p.t" \o Itoa(i)

ManyTagMap(n) == [k \in {ManyTagKey(i) : i \in 1..n} |-> "1"]

TsOldStates ==
    {"", "dd=s:2;o:x", "dd=s:2;o:x,k=v", "k=v;w:1,m=n", "v=" \o Repeat("a;", 40),
     "v=" \o Repeat("a;", 40) \o ",m=n", "w=" \o Repeat("y", 260)}

\* The map m with the previous tracestate old.
WithOldState(m, old) ==
    IF old = "" THEN m
    ELSE [k \in DOMAIN m \cup {tracestateHeader} |->
            IF k = tracestateHeader THEN old ELSE m[k]]

TsTagMaps ==
    {WithOldState(m, old) :
        m \in TsSmallMaps \cup {ManyTagMap(ManyTags - 2), ManyTagMap(ManyTags)},
        old \in TsOldStates}

TsCtxSet ==
    {SpanContext(<<U64(42), U64(52)>>, o, EmptyMap, TRUE, TraceWith(TRUE, p, FALSE, m)) :
        o \in TsOrigins, p \in TsPriorities, m \in TsTagMaps}

\* The orders in which composeTracestate may range over the map tags. A key
\* without the prefix _dd.p. is skipped wherever it comes, so only the order
\* of the others is chosen; of the orders of a map of many tags, all of one
\* size, two are taken.
TsOrders(tags) ==
    LET prefixed == {k \in DOMAIN tags : HasPrefix(k, "_dd.p.")}
        rest == CHOOSE o \in Orders(DOMAIN tags \ prefixed) : TRUE
        n == Cardinality(prefixed)
    IN  IF n <= MaxTags + 1
        THEN {o \o rest : o \in Orders(prefixed)}
        ELSE {[i \in 1..n |-> ManyTagKey(i)] \o rest,
              [i \in 1..n |-> ManyTagKey(n + 1 - i)] \o rest}

InitTracestate ==
    /\ pc = "start"
    /\ log = <<>>
    /\ carrierKind = TextMapKind
    /\ carrier = EmptyCarrier
    /\ ctx \in TsCtxSet

\* composeTracestate(ctx, p, ctx.trace.propagatingTags[tracestateHeader]) with
\* p, _ := ctx.samplingPriority(): the call of propagatorW3c.injectTextMap.
\* The log holds the string as the Set call the caller makes with it.
ComposeTracestate ==
    /\ pc \in {"start", "composed"}
    /\ Len(log) < MaxCalls
    /\ \E ord \in TsOrders(ctx.trace.propagatingTags) :
        \E r \in {composeTracestate(ctx, samplingPriority(ctx).p,
                        MapGet(ctx.trace.propagatingTags, tracestateHeader), ord)} :
            /\ pc' = IF r.panicked THEN "panicked" ELSE "composed"
            /\ log' = Append(log,
                        Operation("composeTracestate", <<>>, ctx, carrier, carrier,
                                  NoError, r.panicked,
                                  IF r.panicked THEN <<>>
                                  ELSE << <<tracestateHeader, r.s>> >>,
                                  NoOut, <<>>))
            /\ UNCHANGED <<ctx, carrierKind, carrier>>

NextTracestate == ComposeTracestate

SpecTracestate == InitTracestate /\ [][NextTracestate]_vars

(***************************************************************************)
(* The third state machine: goroutines that share one trace, each running  *)
(* one operation that reads or writes the trace's propagatingTags. pc maps *)
(* a goroutine to its operation and to the source line it is at (0 when    *)
(* it has returned); log holds the accesses to the map, oldest first.      *)
(***************************************************************************)

Goroutines == {1, 2}

TagOps ==
    {"marshalPropagatingTags", "unmarshalPropagatingTags",
     "propagatorW3c.injectTextMap", "setPropagatingTag"}

\* One step of an operation on the mutex or the map, and the line that
\* follows it.
TagStep(kind, next) == [kind |-> kind, next |-> next]

\* The line at which operation op first touches the mutex or the map of
\* context x: in propagatorW3c.injectTextMap, ctx.updated || ... reads the
\* map at line 526 only when ctx.updated is false.
FirstLine(op, x) ==
    IF op = "marshalPropagatingTags" THEN 314
    ELSE IF op = "unmarshalPropagatingTags" THEN 394
    ELSE IF op = "propagatorW3c.injectTextMap" THEN (IF x.updated THEN 527 ELSE 526)
    ELSE 1

\* The step operation op takes at line at, with the context x as it is then.
TagStepAt(op, at, x) ==
    IF op = "marshalPropagatingTags"
    THEN (IF at = 314 THEN TagStep("lock", 316)
          ELSE IF at = 316 THEN TagStep("read", 335)
          ELSE TagStep("unlock", 0))
    ELSE IF op = "unmarshalPropagatingTags"
    THEN (IF at = 394 THEN TagStep("lock", 402)
          ELSE IF at = 402 THEN TagStep("write", 407)
          ELSE TagStep("unlock", 0))
    ELSE IF op = "propagatorW3c.injectTextMap"
    THEN (IF at = 526
          THEN TagStep("read",
                       IF ~x.trace.tagsNil
                            /\ ~HasPrefix(MapGet(x.trace.propagatingTags, tracestateHeader), "dd=")
                       THEN 527 ELSE 529)
          ELSE IF at = 527 THEN TagStep("read", 548)
          ELSE TagStep("read", 0))
    ELSE (IF at = 1 THEN TagStep("lock", 2)
          ELSE IF at = 2 THEN TagStep("write", 3)
          ELSE TagStep("unlock", 0))

\* The map an operation's write leaves: unmarshalPropagatingTags assigns the
\* parsed header, the tracer's setPropagatingTag sets one tag.
WrittenTags(op, tags) ==
    IF op = "unmarshalPropagatingTags"
    THEN parsePropagatableTraceTags("_dd.p.x=1").tags
    ELSE MapPut(tags, "_dd.p.y", "2")

LocksCtxSet ==
    {SpanContext(<<U64(42), U64(52)>>, "", EmptyMap, u, TraceWith(TRUE, 1, FALSE, m)) :
        u \in BOOLEAN,
        m \in {EmptyMap, [k \in {tracestateHeader} |-> "dd=s:1"]}}

InitLocks ==
    /\ ctx \in LocksCtxSet
    /\ \E ops \in [Goroutines -> TagOps] :
            pc = [g \in Goroutines |-> [op |-> ops[g], at |-> FirstLine(ops[g], ctx)]]
    /\ log = <<>>
    /\ carrierKind = TextMapKind
    /\ carrier = EmptyCarrier

\* The access of goroutine g to the map at its line, and whether g holds the
\* trace's mutex then.
TagAccess(g, kind) ==
    [g |-> g, op |-> pc[g].op, line |-> pc[g].at, kind |-> kind,
     held |-> ctx.trace.mu = g]

\* ctx.trace.mu.Lock(): waits while another goroutine holds the mutex.
Lock(g) ==
    /\ pc[g].at # 0
    /\ \E st \in {TagStepAt(pc[g].op, pc[g].at, ctx)} :
        /\ st.kind = "lock"
        /\ ctx.trace.mu = 0
        /\ ctx' = [ctx EXCEPT !.trace.mu = g]
        /\ pc' = [pc EXCEPT ![g].at = st.next]
        /\ UNCHANGED <<carrierKind, carrier, log>>

\* ctx.trace.mu.Unlock(), deferred to the return.
Unlock(g) ==
    /\ pc[g].at # 0
    /\ \E st \in {TagStepAt(pc[g].op, pc[g].at, ctx)} :
        /\ st.kind = "unlock"
        /\ ctx' = [ctx EXCEPT !.trace.mu = 0]
        /\ pc' = [pc EXCEPT ![g].at = st.next]
        /\ UNCHANGED <<carrierKind, carrier, log>>

\* A read of ctx.trace.propagatingTags.
ReadTags(g) ==
    /\ pc[g].at # 0
    /\ \E st \in {TagStepAt(pc[g].op, pc[g].at, ctx)} :
        /\ st.kind = "read"
        /\ log' = Append(log, TagAccess(g, "read"))
        /\ pc' = [pc EXCEPT ![g].at = st.next]
        /\ UNCHANGED <<ctx, carrierKind, carrier>>

\* A write of ctx.trace.propagatingTags.
WriteTags(g) ==
    /\ pc[g].at # 0
    /\ \E st \in {TagStepAt(pc[g].op, pc[g].at, ctx)} :
        /\ st.kind = "write"
        /\ ctx' = [ctx EXCEPT !.trace.tagsNil = FALSE,
                              !.trace.propagatingTags = WrittenTags(pc[g].op, @)]
        /\ log' = Append(log, TagAccess(g, "write"))
        /\ pc' = [pc EXCEPT ![g].at = st.next]
        /\ UNCHANGED <<carrierKind, carrier>>

NextLocks ==
    \E g \in Goroutines : Lock(g) \/ Unlock(g) \/ ReadTags(g) \/ WriteTags(g)

SpecLocks == InitLocks /\ [][NextLocks]_vars

(***************************************************************************)
(* The fourth state machine: NewPropagator builds a chained propagator     *)
(* from its arguments and the process environment, and the chain injects   *)
(* and extracts.                                                           *)
(***************************************************************************)

headerPropagationStyleInject == "DD_TRACE_PROPAGATION_STYLE_INJECT"
headerPropagationStyleExtract == "DD_TRACE_PROPAGATION_STYLE_EXTRACT"
headerPropagationStyle == "DD_TRACE_PROPAGATION_STYLE"
headerPropagationStyleInjectDeprecated == "DD_PROPAGATION_STYLE_INJECT"
headerPropagationStyleExtractDeprecated == "DD_PROPAGATION_STYLE_EXTRACT"

\* os.Getenv on the environment env: "" for a variable that is not set.
Getenv(env, name) == IF name \in DOMAIN env THEN env[name] ELSE ""

\* The for loop of getPropagators over the tokens of the selector, from
\* token i on, list being the propagators appended so far.
RECURSIVE getPropagatorsLoop(_, _, _, _)
getPropagatorsLoop(cfg, tokens, i, list) ==
    IF i > Len(tokens) THEN list
    ELSE LET Case(v) ==
                IF v = "datadog" THEN Append(list, Propagator(DatadogKind, cfg))
                ELSE IF v \in {"b3", "b3multi"}
                THEN (IF ~cfg.B3 THEN Append(list, Propagator(B3Kind, cfg)) ELSE list)
                ELSE list
         IN  getPropagatorsLoop(cfg, tokens, i + 1, Case(ToLower(tokens[i])))

\* getPropagators: the propagators of the selector ps under the environment
\* env, an empty sequence for the nil slice.
getPropagators(cfg, ps, env) ==
    LET dd == Propagator(DatadogKind, cfg)
        defaultPs == IF cfg.B3 THEN <<dd, Propagator(B3Kind, cfg)>> ELSE <<dd>>
        OrDefault(list) == IF Len(list) = 0 THEN defaultPs ELSE list
        Selected(sel) ==
            IF sel = "none" THEN <<>>
            ELSE OrDefault(getPropagatorsLoop(cfg, Split(sel, ","), 1,
                    IF cfg.B3 THEN <<Propagator(B3Kind, cfg)>> ELSE <<>>))
    IN  IF ps = ""
        THEN (IF Getenv(env, headerPropagationStyle) # ""
              THEN Selected(Getenv(env, headerPropagationStyle))
              ELSE defaultPs)
        ELSE Selected(ps)

\* NewPropagator reading the deprecated selectors before the current ones.
NewPropagator_DeprecatedFirst(cfg, propagators, env) ==
    LET Selector(name, deprecated) ==
            IF Getenv(env, deprecated) # "" THEN Getenv(env, deprecated)
            ELSE Getenv(env, name)
    IN  IF Len(propagators) > 0
        THEN [injectors |-> propagators, extractors |-> propagators]
        ELSE [injectors |->
                getPropagators(cfg, Selector(headerPropagationStyleInject,
                                   headerPropagationStyleInjectDeprecated), env),
              extractors |->
                getPropagators(cfg, Selector(headerPropagationStyleExtract,
                                   headerPropagationStyleExtractDeprecated), env)]

\* NewPropagator(cfg, propagators...) under the environment env: the
\* injectors and extractors of the chained propagator it returns. cfg has
\* its defaults filled in.
NewPropagator(cfg, propagators, env) ==
    LET Selector(name, deprecated) ==
            IF Getenv(env, name) # "" THEN Getenv(env, name)
            ELSE Getenv(env, deprecated)
    IN  IF Len(propagators) > 0
        THEN [injectors |-> propagators, extractors |-> propagators]
        ELSE [injectors |->
                getPropagators(cfg, Selector(headerPropagationStyleInject,
                                   headerPropagationStyleInjectDeprecated), env),
              extractors |->
                getPropagators(cfg, Selector(headerPropagationStyleExtract,
                                   headerPropagationStyleExtractDeprecated), env)]

\* The values of the five selectors; "" is a variable that is not set.
InjectSelectors ==
    {"", "none", "NONE", "datadog", "b3,Datadog", "foo", "foo,b3multi,bar",
     "datadog,datadog", "b3,b3multi"}
InjectDeprecatedSelectors == {"", "b3", "none"}
ExtractSelectors == {"", "none", "B3", "tracecontext"}
ExtractDeprecatedSelectors == {"", "datadog"}
GenericSelectors == {"", "none", "b3", "bar,datadog"}

Environment(i, id, e, ed, g) ==
    [n \in {headerPropagationStyleInject, headerPropagationStyleInjectDeprecated,
            headerPropagationStyleExtract, headerPropagationStyleExtractDeprecated,
            headerPropagationStyle} |->
        IF n = headerPropagationStyleInject THEN i
        ELSE IF n = headerPropagationStyleInjectDeprecated THEN id
        ELSE IF n = headerPropagationStyleExtract THEN e
        ELSE IF n = headerPropagationStyleExtractDeprecated THEN ed
        ELSE g]

Environments ==
    {Environment(i, id, e, ed, g) :
        i \in InjectSelectors, id \in InjectDeprecatedSelectors,
        e \in ExtractSelectors, ed \in ExtractDeprecatedSelectors,
        g \in GenericSelectors}

\* The propagators handed to NewPropagator: none, or a list.
ExplicitLists == {<<>>, <<W3C>>, <<B3, DD>>}

\* The carriers the chain works on: an empty one, and an incoming one with
\* the headers of both formats.
ConfigCarriers ==
    {EmptyCarrier,
     CarrierOf(TextMapKind, EmptyCarrier,
        << <<"x-datadog-trace-id", "42">>, <<"x-datadog-parent-id", "52">>,
           <<"x-b3-traceid", "7">>, <<"x-b3-spanid", "8">> >>)}

InitConfig ==
    /\ pc = "start"
    /\ log = <<>>
    /\ carrierKind = TextMapKind
    /\ ctx = BaseCtx
    /\ carrier \in ConfigCarriers

\* NewPropagator(cfg, propagators...) is called; the call and the chain it
\* returns are kept as the first entry of log.
Construct ==
    /\ pc = "start"
    /\ \E b3 \in BOOLEAN, propagators \in ExplicitLists, env \in Environments :
        \E cfg \in {PropagatorConfig(MaxHeaderLen, b3)} :
        \E r \in {NewPropagator(cfg, propagators, env)} :
            /\ log' = <<[op |-> "NewPropagator", cfg |-> cfg,
                         propagators |-> propagators, env |-> env,
                         injectors |-> r.injectors, extractors |-> r.extractors]>>
            /\ pc' = "built"
            /\ UNCHANGED <<ctx, carrierKind, carrier>>

\* Inject(ctx, carrier) on the chain NewPropagator returned.
ConstructedInject ==
    /\ pc = "built"
    /\ \E chain \in {log[1].injectors} :
      \E ords \in ChainOrds(chain, ctx) :
        \E r \in {chainedPropagator_Inject(chain, ctx, ords)} :
        \E sets \in {CallSets(r.calls)} :
        \E after \in {ApplySets(carrierKind, carrier, sets)} :
            /\ pc' = IF r.panicked THEN "panicked" ELSE "injected"
            /\ ctx' = [ctx EXCEPT !.trace = r.trace]
            /\ carrier' = after
            /\ log' = Append(log, Operation("ChainInject", chain, ctx, carrier, after,
                                            r.err, r.panicked, sets, NoOut, r.calls))
            /\ UNCHANGED carrierKind

\* Extract(carrier) on the chain NewPropagator returned.
ConstructedExtract ==
    /\ pc \in {"built", "injected"}
    /\ \E chain \in {log[1].extractors} :
      \E visit \in {VisitOrders(carrier)} :
      \E orders \in [1..Len(chain) -> visit] :
        \E r \in {chainedPropagator_Extract(chain,
                    [i \in 1..Len(chain) |-> ForeachKeyPairs(carrier, orders[i])])} :
            /\ pc' = IF r.res.panicked THEN "panicked" ELSE "done"
            /\ log' = Append(log, Operation("ChainExtract", chain, ctx, carrier,
                                            carrier, r.res.err, r.res.panicked, <<>>,
                                            r.res, r.calls))
            /\ UNCHANGED <<ctx, carrierKind, carrier>>

NextConfig ==
    \/ Construct
    \/ ConstructedInject
    \/ ConstructedExtract

SpecConfig == InitConfig /\ [][NextConfig]_vars

(***************************************************************************)
(* Properties of Spec.                                                     *)
(***************************************************************************)

LogEntries == {log[i] : i \in 1..Len(log)}

\* A context that is not valid for injection.
Invalid(x) == x.traceID = U64Zero \/ x.spanID = U64Zero

Formats == {DatadogKind, B3Kind, W3cKind}

\* The operations of kind op made on one propagator of the format kind.
OpsOf(op, kind) ==
    {e \in LogEntries : e.op = op /\ e.props[1].kind = kind}

\* C1: for each of the three formats, Inject with a context whose traceID is
\* 0 or whose spanID is 0 returns ErrInvalidSpanContext and makes no Set call:
\* the carrier is unchanged.
C1_InvalidContextNotInjected ==
    \A kind \in Formats :
        \A e \in OpsOf("Inject", kind) :
            Invalid(e.ctx) =>
                /\ e.err = ErrInvalidSpanContext
                /\ ~e.panicked
                /\ e.sets = <<>>
                /\ e.after = e.before

C1_Witness ==
    \E e \in OpsOf("Inject", W3cKind) :
        /\ e.ctx.spanID = U64Zero
        /\ e.err = ErrInvalidSpanContext
        /\ DOMAIN e.before # {}
        /\ e.after = e.before

\* An injection of a valid context into an empty carrier by a propagator of
\* the format kind, followed by an extraction from that carrier by the same
\* format.
RoundTrip(kind) ==
    /\ Len(log) = 2
    /\ log[1] \in OpsOf("Inject", kind)
    /\ log[2] \in OpsOf("Extract", kind)
    /\ log[1].before = EmptyCarrier
    /\ ~Invalid(log[1].ctx)

\* C2 as stated: for every valid context and each format, injecting into an
\* empty carrier and extracting with the same format yields a context with
\* the same traceID, spanID, baggage and sampling priority.
C2_RoundTripEveryFormat ==
    \A kind \in Formats :
        RoundTrip(kind) =>
            /\ ~log[2].panicked
            /\ ~log[2].out.isNil
            /\ log[2].out.ctx.traceID = log[1].ctx.traceID
            /\ log[2].out.ctx.spanID = log[1].ctx.spanID
            /\ log[2].out.ctx.baggage = log[1].ctx.baggage
            /\ samplingPriority(log[2].out.ctx) = samplingPriority(log[1].ctx)

\* The baggage b as it comes back from a carrier: its keys in lower case.
LowerKeys(b) ==
    [k \in {ToLower(j) : j \in DOMAIN b} |->
        b[CHOOSE j \in DOMAIN b : ToLower(j) = k]]

\* The sampling priority that the B3 sampled flag carries.
B3Priority(sp) ==
    IF sp.ok THEN [p |-> IF sp.p >= PriorityAutoKeep THEN 1 ELSE 0, ok |-> TRUE]
    ELSE [p |-> 0, ok |-> FALSE]

\* No two keys of the baggage b are the same up to letter case.
DistinctLowerKeys(b) == \A j, k \in DOMAIN b : ToLower(j) = ToLower(k) => j = k

\* C2 amended: for every valid context, injecting into an empty carrier and
\* extracting with the same format yields, with the first-party format, the
\* same traceID, spanID and sampling priority and, when no two baggage keys
\* are the same up to letter case, the same baggage under its lower-cased
\* keys; with the B3 format, the same traceID and spanID, no baggage, and the
\* priority 1 when the injected one was at least auto-keep, 0 when it was set
\* and lower, none when it was not set.
C2_RoundTripFirstPartyAndB3 ==
    /\ RoundTrip(DatadogKind) =>
            /\ ~log[2].panicked
            /\ ~log[2].out.isNil
            /\ log[2].out.ctx.traceID = log[1].ctx.traceID
            /\ log[2].out.ctx.spanID = log[1].ctx.spanID
            /\ DistinctLowerKeys(log[1].ctx.baggage)
                    => log[2].out.ctx.baggage = LowerKeys(log[1].ctx.baggage)
            /\ samplingPriority(log[2].out.ctx) = samplingPriority(log[1].ctx)
    /\ RoundTrip(B3Kind) =>
            /\ ~log[2].panicked
            /\ ~log[2].out.isNil
            /\ log[2].out.ctx.traceID = log[1].ctx.traceID
            /\ log[2].out.ctx.spanID = log[1].ctx.spanID
            /\ log[2].out.ctx.baggage = EmptyMap
            /\ samplingPriority(log[2].out.ctx)
                    = B3Priority(samplingPriority(log[1].ctx))

C2_Witness ==
    /\ RoundTrip(DatadogKind)
    /\ "Key" \in DOMAIN log[1].ctx.baggage
    /\ ~log[2].out.isNil
    /\ "key" \in DOMAIN log[2].out.ctx.baggage

\* Every key of the baggage b is in lower case.
LowerCaseKeys(b) == \A k \in DOMAIN b : ToLower(k) = k

\* C24: for the first-party format with the default header names and every
\* valid context whose baggage keys are in lower case, injecting into an
\* empty TextMapCarrier or HTTPHeadersCarrier and extracting from it returns
\* a context with the same traceID, spanID, origin and baggage, and with a
\* sampling priority exactly when the injected context has one, of the same
\* value; the carrier's letter case of the header keys does not matter.
C24_FirstPartyRoundTrip ==
    (RoundTrip(DatadogKind) /\ LowerCaseKeys(log[1].ctx.baggage)) =>
        /\ log[1].err = NoError
        /\ ~log[2].panicked
        /\ log[2].err = NoError
        /\ ~log[2].out.isNil
        /\ log[2].out.ctx.traceID = log[1].ctx.traceID
        /\ log[2].out.ctx.spanID = log[1].ctx.spanID
        /\ log[2].out.ctx.origin = log[1].ctx.origin
        /\ log[2].out.ctx.baggage = log[1].ctx.baggage
        /\ log[2].out.ctx.trace.hasPriority
                = (~log[1].ctx.trace.nil /\ log[1].ctx.trace.hasPriority)
        /\ log[2].out.ctx.trace.hasPriority
                => log[2].out.ctx.trace.priority = log[1].ctx.trace.priority

C24_Witness ==
    /\ RoundTrip(DatadogKind)
    /\ carrierKind = HTTPHeadersKind
    /\ "Ot-Baggage-Key" \in DOMAIN log[2].before
    /\ log[1].ctx.baggage = [k \in {"k", "key"} |-> BaggagePool[k]]
    /\ log[2].out.ctx.baggage = log[1].ctx.baggage
    /\ log[2].out.ctx.baggage["key"] = "W, x=Y"

\* The call c is what the extractor p may return on carrier c0: Extract of p
\* under one of the orders ForeachKey may take.
IsExtractOf(c, p, c0) ==
    \E keys \in VisitOrders(c0) :
        \E r \in {Propagator_Extract(p, ForeachKeyPairs(c0, keys))} :
            /\ c.prop = p
            /\ c.panicked = r.panicked
            /\ c.isNil = r.isNil
            /\ c.err = r.err
            /\ c.ctx = r.ctx

\* The extractor returned no context and ErrSpanContextNotFound.
NotFoundCall(c) == ~c.panicked /\ c.isNil /\ c.err = ErrSpanContextNotFound

FirstPartyOnly ==
    << <<"x-datadog-trace-id", "42">>, <<"x-datadog-parent-id", "52">>,
       <<"x-datadog-sampling-priority", "2">>, <<"ot-baggage-k", "v">> >>

\* C3: chainedPropagator.Extract calls its extractors in the configured order;
\* it goes on to the next one exactly after a result of ErrSpanContextNotFound;
\* the first non-nil context is returned with a nil error, any other error is
\* returned with a nil context, and no later extractor is called; when every
\* extractor reports not-found the result is ErrSpanContextNotFound. With the
\* extractors [B3, first-party] and a carrier of first-party headers only, the
\* result is the context of the first-party headers.
C3_ChainExtractOrder ==
    \A e \in {x \in LogEntries : x.op = "ChainExtract"} :
        LET n == Len(e.calls)
            last == e.calls[n]
        IN  /\ n <= Len(e.props)
            /\ \A j \in 1..n : IsExtractOf(e.calls[j], e.props[j], e.before)
            /\ \A j \in 1..(n - 1) : NotFoundCall(e.calls[j])
            /\ IF n = 0 \/ NotFoundCall(last)
               THEN /\ n = Len(e.props)
                    /\ ~e.panicked
                    /\ e.out.isNil
                    /\ e.err = ErrSpanContextNotFound
               ELSE IF last.panicked THEN e.panicked
               ELSE IF ~last.isNil
               THEN /\ ~e.panicked
                    /\ ~e.out.isNil
                    /\ e.out.ctx = last.ctx
                    /\ e.err = NoError
               ELSE /\ ~e.panicked
                    /\ e.out.isNil
                    /\ e.err = last.err
            /\ ([i \in 1..Len(e.props) |-> e.props[i].kind] = <<B3Kind, DatadogKind>>
                    /\ e.before = CarrierOf(carrierKind, EmptyCarrier, FirstPartyOnly))
                => /\ n = 2
                   /\ ~e.out.isNil
                   /\ e.out.ctx.traceID = U64(42)
                   /\ e.out.ctx.spanID = U64(52)
                   /\ e.out.ctx.baggage = [k \in {"k"} |-> "v"]
                   /\ samplingPriority(e.out.ctx) = [p |-> 2, ok |-> TRUE]

C3_Witness ==
    \E e \in {x \in LogEntries : x.op = "ChainExtract"} :
        /\ [i \in 1..Len(e.props) |-> e.props[i].kind] = <<B3Kind, DatadogKind>>
        /\ e.before = CarrierOf(carrierKind, EmptyCarrier, FirstPartyOnly)
        /\ Len(e.calls) = 2
        /\ NotFoundCall(e.calls[1])
        /\ ~e.out.isNil

\* C4: chainedPropagator.Inject calls its injectors in the configured order on
\* the same carrier; when an injector returns an error, that error is returned,
\* no later injector is called and the writes of the earlier injectors stay in
\* the carrier; when no injector fails, every injector has been called once
\* and nil is returned.
C4_ChainInjectOrder ==
    \A e \in {x \in LogEntries : x.op = "ChainInject"} :
        LET n == Len(e.calls)
            last == e.calls[n]
        IN  /\ n <= Len(e.props)
            /\ \A j \in 1..n : e.calls[j].prop = e.props[j]
            /\ \A j \in 1..(n - 1) : ~e.calls[j].panicked /\ e.calls[j].err = NoError
            /\ e.after = ApplySets(carrierKind, e.before, CallSets(e.calls))
            /\ \A j \in 1..n : \A i \in 1..Len(e.calls[j].sets) :
                    \E k \in DOMAIN e.after :
                        ToLower(k) = ToLower(e.calls[j].sets[i][1])
            /\ IF n = 0 \/ (~last.panicked /\ last.err = NoError)
               THEN /\ n = Len(e.props)
                    /\ ~e.panicked
                    /\ e.err = NoError
               ELSE IF last.panicked THEN e.panicked
               ELSE ~e.panicked /\ e.err = last.err

C4_Witness ==
    \E e \in {x \in LogEntries : x.op = "ChainInject"} :
        /\ Len(e.props) = 3
        /\ Len(e.calls) = 2
        /\ e.err = ErrInvalidCarrier
        /\ e.before = EmptyCarrier
        /\ e.calls[1].sets # <<>>
        /\ DOMAIN e.after # {}

\* The keys, in lower case, that the first-party or the B3 extractor reads.
RecognizedKey(k) ==
    LET Known(key) ==
            \/ key \in {DefaultTraceIDHeader, DefaultParentIDHeader,
                        DefaultPriorityHeader, originHeader, traceTagsHeader,
                        b3TraceIDHeader, b3SpanIDHeader, b3SampledHeader}
            \/ HasPrefix(key, DefaultBaggageHeaderPrefix)
    IN  Known(ToLower(k))

Extractions == {e \in LogEntries : e.op \in {"Extract", "ChainExtract"}}

\* C5: extraction by the first-party format, the B3 format or a chain of them
\* from a carrier with none of the recognized keys returns no context and
\* ErrSpanContextNotFound; no extraction returns a context whose traceID is 0.
C5_NoKeysNotFound ==
    \A e \in Extractions :
        /\ (~e.panicked /\ ~e.out.isNil) => e.out.ctx.traceID # U64Zero
        /\ ((\A i \in 1..Len(e.props) : e.props[i].kind \in {DatadogKind, B3Kind})
                /\ \A k \in DOMAIN e.before : ~RecognizedKey(k))
            => /\ ~e.panicked
               /\ e.out.isNil
               /\ e.err = ErrSpanContextNotFound

C5_Witness ==
    \E e \in Extractions :
        /\ e.op = "ChainExtract"
        /\ [i \in 1..Len(e.props) |-> e.props[i].kind] = <<DatadogKind, B3Kind>>
        /\ DOMAIN e.before # {}
        /\ \A k \in DOMAIN e.before : ~RecognizedKey(k)
        /\ e.out.isNil
        /\ e.err = ErrSpanContextNotFound

\* The values carrier c holds under the header name, whatever the case of the
\* key.
HeaderValues(c, name) ==
    UNION {{c[k][i] : i \in 1..Len(c[k])} : k \in {j \in DOMAIN c : ToLower(j) = name}}

\* The identifiers the values vs of a header may decode to: zero without the
\* header.
DecodedIds(vs) == IF vs = {} THEN {U64Zero} ELSE {parseUint64(v).val : v \in vs}

DecodedOrigins(vs) == IF vs = {} THEN {""} ELSE vs

\* The identifier and priority headers of carrier c all parse.
HeadersParse(c) ==
    /\ \A v \in HeaderValues(c, DefaultTraceIDHeader) : parseUint64(v).ok
    /\ \A v \in HeaderValues(c, DefaultParentIDHeader) : parseUint64(v).ok
    /\ \A v \in HeaderValues(c, DefaultPriorityHeader) : Atoi(v).ok

ValidExtracted(t, sp, o) == t # U64Zero /\ (sp # U64Zero \/ o = "synthetics")

SyntheticsOnly(origin) ==
    << <<"x-datadog-trace-id", "42">>, <<"x-datadog-origin", origin>> >>

\* C6: first-party extraction from a carrier whose headers all parse returns a
\* context if and only if the decoded trace ID is not 0 and the decoded span
\* ID is not 0 or the origin is "synthetics"; otherwise it returns
\* ErrSpanContextNotFound. A carrier of only the trace ID 42 and the origin
\* synthetics gives the context 42, 0, "synthetics"; with another origin it
\* gives not-found.
C6_ExtractedContextValid ==
    \A e \in OpsOf("Extract", DatadogKind) :
        HeadersParse(e.before) =>
            LET tids == DecodedIds(HeaderValues(e.before, DefaultTraceIDHeader))
                sids == DecodedIds(HeaderValues(e.before, DefaultParentIDHeader))
                orgs == DecodedOrigins(HeaderValues(e.before, originHeader))
            IN  /\ ~e.panicked
                /\ IF e.out.isNil
                   THEN /\ e.err = ErrSpanContextNotFound
                        /\ \E t \in tids, sp \in sids, o \in orgs :
                                ~ValidExtracted(t, sp, o)
                   ELSE /\ e.err = NoError
                        /\ e.out.ctx.traceID \in tids
                        /\ e.out.ctx.spanID \in sids
                        /\ e.out.ctx.origin \in orgs
                        /\ ValidExtracted(e.out.ctx.traceID, e.out.ctx.spanID,
                                          e.out.ctx.origin)
                /\ (\A t \in tids, sp \in sids, o \in orgs : ValidExtracted(t, sp, o))
                        => ~e.out.isNil
                /\ e.before = CarrierOf(carrierKind, EmptyCarrier,
                                        SyntheticsOnly("synthetics"))
                    => /\ ~e.out.isNil
                       /\ e.out.ctx.traceID = U64(42)
                       /\ e.out.ctx.spanID = U64Zero
                       /\ e.out.ctx.origin = "synthetics"
                /\ e.before = CarrierOf(carrierKind, EmptyCarrier, SyntheticsOnly("rum"))
                    => e.out.isNil /\ e.err = ErrSpanContextNotFound

C6_Witness ==
    \E e \in OpsOf("Extract", DatadogKind) :
        /\ e.before = CarrierOf(carrierKind, EmptyCarrier, SyntheticsOnly("synthetics"))
        /\ ~e.out.isNil
        /\ e.out.ctx.spanID = U64Zero
        /\ e.out.ctx.origin = "synthetics"

\* The tags of the map tags that marshalPropagatingTags propagates.
ValidTags(tags) == {k \in DOMAIN tags : isValidPropagatableTag(k, tags[k])}

\* The length of the keys ks of tags joined as k=v pairs with commas.
RECURSIVE JoinedLen(_, _)
JoinedLen(tags, ks) ==
    IF ks = {} THEN 0
    ELSE LET k == CHOOSE x \in ks : TRUE
         IN  Len(k) + 1 + Len(tags[k])
                + (IF ks = {k} THEN 0 ELSE 1 + JoinedLen(tags, ks \ {k}))

\* The values the Set calls sets wrote under key.
Written(sets, key) == {sets[i][2] : i \in {j \in 1..Len(sets) : sets[j][1] = key}}

\* C7: for every set of propagating tags and every MaxTagsHeaderLen > 0, the
\* value written to x-datadog-tags is at most MaxTagsHeaderLen long, the '='
\* and ',' counted; when the valid tags do not all fit, no tags header is
\* written and the trace's propagation error is inject_max_size.
C7_TagsHeaderWithinLimit ==
    (Len(log) = 1 /\ log[1] \in OpsOf("Inject", DatadogKind))
        => LET e == log[1]
               max == e.props[1].cfg.MaxTagsHeaderLen
               tags == e.ctx.trace.propagatingTags
           IN  (max > 0 /\ ~Invalid(e.ctx) /\ ~e.ctx.trace.nil)
                => /\ \A v \in Written(e.sets, traceTagsHeader) : Len(v) <= max
                   /\ JoinedLen(tags, ValidTags(tags)) > max
                        => /\ Written(e.sets, traceTagsHeader) = {}
                           /\ ctx.trace.propagationError = "inject_max_size"

\* C10: W3C Extract does not panic: for every carrier it returns no context
\* and an error.
C10_W3CExtractReturnsError ==
    \A e \in OpsOf("Extract", W3cKind) :
        /\ ~e.panicked
        /\ e.out.isNil
        /\ e.err # NoError

\* The carrier c without the header name, in whatever letter case.
WithoutHeader(c, name) == [k \in {j \in DOMAIN c : ToLower(j) # name} |-> c[k]]

\* Carrier c holds a tags header, each value of it longer than the limit.
OversizedTags(c) ==
    /\ HeaderValues(c, traceTagsHeader) # {}
    /\ \A v \in HeaderValues(c, traceTagsHeader) : Len(v) > propagationExtractMaxSize

\* The results r1 and r2 of Extract agree on the error and on everything
\* of the context but its trace's tags and propagation error.
SameButTags(r1, r2) ==
    /\ r1.panicked = r2.panicked
    /\ r1.err = r2.err
    /\ r1.isNil = r2.isNil
    /\ r1.ctx.traceID = r2.ctx.traceID
    /\ r1.ctx.spanID = r2.ctx.spanID
    /\ r1.ctx.origin = r2.ctx.origin
    /\ r1.ctx.baggage = r2.ctx.baggage
    /\ samplingPriority(r1.ctx) = samplingPriority(r2.ctx)

\* C12: first-party extraction from a carrier whose x-datadog-tags value is
\* longer than 512 characters sets no propagating tag on the trace, sets the
\* trace's propagation error to extract_max_size, and extracts the other
\* headers as it does without the tags header.
C12_OversizedTagsHeaderIgnored ==
    \A e \in OpsOf("Extract", DatadogKind) :
        OversizedTags(e.before) =>
            /\ \E keys \in VisitOrders(WithoutHeader(e.before, traceTagsHeader)) :
                    SameButTags(e.out,
                        Propagator_Extract(e.props[1],
                            ForeachKeyPairs(WithoutHeader(e.before, traceTagsHeader), keys)))
            /\ ~e.out.isNil =>
                    /\ e.out.ctx.trace.tagsNil
                    /\ e.out.ctx.trace.propagatingTags = EmptyMap
                    /\ e.out.ctx.trace.propagationError = "extract_max_size"

C12_Witness ==
    \E e \in OpsOf("Extract", DatadogKind) :
        /\ OversizedTags(e.before)
        /\ ~e.out.isNil
        /\ e.out.ctx.traceID = U64(42)
        /\ e.out.ctx.spanID = U64(52)
        /\ samplingPriority(e.out.ctx) = [p |-> 1, ok |-> TRUE]
        /\ e.out.ctx.trace.propagationError = "extract_max_size"

\* Carrier c holds a tags header, each value of it within the limit and
\* malformed.
MalformedTags(c) ==
    /\ HeaderValues(c, traceTagsHeader) # {}
    /\ \A v \in HeaderValues(c, traceTagsHeader) :
            Len(v) <= propagationExtractMaxSize /\ ~parsePropagatableTraceTags(v).ok

\* The state follows one first-party Inject of a valid context with a trace,
\* by a propagator that propagates tags.
TagsInjected ==
    /\ Len(log) = 1
    /\ log[1] \in OpsOf("Inject", DatadogKind)
    /\ log[1].props[1].cfg.MaxTagsHeaderLen > 0
    /\ ~Invalid(log[1].ctx)
    /\ ~log[1].ctx.trace.nil

\* Inject returned no error; with an invalid tag and the valid tags fitting
\* into max, the propagation error is encoding_error; with the valid tags
\* not fitting, no tags header is written and it is inject_max_size.
InjectDegrades(e, tags, max) ==
    /\ e.err = NoError
    /\ ~e.panicked
    /\ (ValidTags(tags) # DOMAIN tags /\ JoinedLen(tags, ValidTags(tags)) <= max)
            => ctx.trace.propagationError = "encoding_error"
    /\ JoinedLen(tags, ValidTags(tags)) > max
            => /\ Written(e.sets, traceTagsHeader) = {}
               /\ ctx.trace.propagationError = "inject_max_size"

\* Extract returned what it returns without the tags header, but for the
\* trace's tags; an oversized header left extract_max_size, a malformed one
\* decoding_error.
ExtractDegrades(e) ==
    /\ \E keys \in VisitOrders(WithoutHeader(e.before, traceTagsHeader)) :
            SameButTags(e.out,
                Propagator_Extract(e.props[1],
                    ForeachKeyPairs(WithoutHeader(e.before, traceTagsHeader), keys)))
    /\ (~e.out.isNil /\ OversizedTags(e.before))
            => e.out.ctx.trace.propagationError = "extract_max_size"
    /\ (~e.out.isNil /\ MalformedTags(e.before))
            => e.out.ctx.trace.propagationError = "decoding_error"

\* C13: malformed or oversized propagating tags never make Inject or Extract
\* fail: an invalid tag pair and an oversized tag set at injection, an
\* oversized and a malformed tags header at extraction leave the error
\* result as it is without the tags, degrade the tag payload and record
\* encoding_error, inject_max_size, extract_max_size and decoding_error.
C13_TagErrorsOnlyDegrade ==
    /\ TagsInjected =>
            InjectDegrades(log[1], log[1].ctx.trace.propagatingTags,
                           log[1].props[1].cfg.MaxTagsHeaderLen)
    /\ \A e \in OpsOf("Extract", DatadogKind) :
            HeaderValues(e.before, traceTagsHeader) # {} => ExtractDegrades(e)

\* The value v of x-b3-traceid as propagatorB3.extractTextMap parses it: its
\* last 16 characters as a hexadecimal number.
B3TraceIDParse(v) == ParseUint(IF Len(v) > 16 THEN SliceFrom(v, Len(v) - 16) ELSE v, 16)

\* The identifier and sampled headers of carrier c all parse.
B3HeadersParse(c) ==
    /\ \A v \in HeaderValues(c, b3TraceIDHeader) : B3TraceIDParse(v).ok
    /\ \A v \in HeaderValues(c, b3SpanIDHeader) : ParseUint(v, 16).ok
    /\ \A v \in HeaderValues(c, b3SampledHeader) : Atoi(v).ok

\* The extraction e returned no context and ErrSpanContextCorrupted.
Corrupted(e) ==
    /\ ~e.panicked
    /\ e.out.isNil
    /\ e.out.ctx = ZeroSpanContext
    /\ e.err = ErrSpanContextCorrupted

\* C14: in first-party and B3 extraction, a present trace-ID, span-ID or
\* sampling-priority header whose value does not parse makes Extract return
\* no context and ErrSpanContextCorrupted.
C14_UnparsableHeaderIsCorrupted ==
    /\ \A e \in OpsOf("Extract", DatadogKind) : ~HeadersParse(e.before) => Corrupted(e)
    /\ \A e \in OpsOf("Extract", B3Kind) : ~B3HeadersParse(e.before) => Corrupted(e)

C14_Witness ==
    /\ \E e \in OpsOf("Extract", DatadogKind) :
            /\ HeaderValues(e.before, DefaultTraceIDHeader) = {"42"}
            /\ HeaderValues(e.before, DefaultPriorityHeader) = {"keep"}
            /\ Corrupted(e)

\* The last 16 characters of a longer string.
Last16(v) == IF Len(v) > 16 THEN SubSeq(v, Len(v) - 15, Len(v)) ELSE v

\* The number that four hexadecimal digits write.
HexLimb(s) ==
    DigitVal(Char(s, 1), 16) * 4096 + DigitVal(Char(s, 2), 16) * 256
        + DigitVal(Char(s, 3), 16) * 16 + DigitVal(Char(s, 4), 16)

\* The low 64 bits of the hexadecimal number v of more than 16 digits.
HexLow64(v) == [j \in 1..4 |-> HexLimb(SubSeq(v, Len(v) - 19 + 4 * j, Len(v) - 16 + 4 * j))]

\* The carrier c with every value of x-b3-traceid cut to its last 16
\* characters.
CutTraceID(c) ==
    [k \in DOMAIN c |->
        IF ToLower(k) = b3TraceIDHeader
        THEN [i \in 1..Len(c[k]) |-> Last16(c[k][i])]
        ELSE c[k]]

\* C15: B3 extraction of an x-b3-traceid longer than 16 characters uses its
\* last 16 characters only: it returns what it returns for the carrier with
\* the value cut to them, and a context it returns holds the low 64 bits of
\* the value as its traceID.
C15_B3TraceIDTrailing16 ==
    \A e \in OpsOf("Extract", B3Kind) :
        \A v \in HeaderValues(e.before, b3TraceIDHeader) :
            (Len(v) > 16 /\ HeaderValues(e.before, b3TraceIDHeader) = {v}) =>
                /\ \E keys \in VisitOrders(e.before) :
                        e.out = Propagator_Extract(e.props[1],
                                    ForeachKeyPairs(CutTraceID(e.before), keys))
                /\ ~e.out.isNil => e.out.ctx.traceID = HexLow64(v)

C15_Witness ==
    \E e \in OpsOf("Extract", B3Kind) :
        /\ HeaderValues(e.before, b3TraceIDHeader) = {"zz000000000000002a"}
        /\ ~e.out.isNil
        /\ e.out.ctx.traceID = U64(42)

LowerHexChars == CharsOf(HexDigits)

\* s is n lower-case hexadecimal digits that write the uint64 x.
IsHexOf(s, n, x) ==
    /\ Len(s) = n
    /\ \A i \in 1..n : Char(s, i) \in LowerHexChars
    /\ \A i \in 1..(n - 16) : Char(s, i) = "0"
    /\ HexLow64(s) = x

\* The x-b3-sampled header of the sampling priority sp.
B3Sampled(sp) ==
    IF ~sp.ok THEN <<>>
    ELSE IF sp.p >= 1 THEN << <<b3SampledHeader, "1">> >>
    ELSE << <<b3SampledHeader, "0">> >>

\* C16: B3 Inject of a valid context writes x-b3-traceid and x-b3-spanid as
\* 16 lower-case zero-padded hexadecimal digits, x-b3-sampled = 1 for a
\* priority that is set and at least 1, 0 for one that is set and lower, no
\* x-b3-sampled for none, and no other key; traceID 42, spanID 52 and
\* priority 1 give 000000000000002a, 0000000000000034 and 1.
C16_B3InjectHeaders ==
    \A e \in OpsOf("Inject", B3Kind) :
        ~Invalid(e.ctx) =>
            /\ e.err = NoError
            /\ ~e.panicked
            /\ Len(e.sets) >= 2
            /\ e.sets[1][1] = b3TraceIDHeader
            /\ IsHexOf(e.sets[1][2], 16, e.ctx.traceID)
            /\ e.sets[2][1] = b3SpanIDHeader
            /\ IsHexOf(e.sets[2][2], 16, e.ctx.spanID)
            /\ SubSeq(e.sets, 3, Len(e.sets)) = B3Sampled(samplingPriority(e.ctx))
            /\ (e.ctx.traceID = U64(42) /\ e.ctx.spanID = U64(52)) =>
                    /\ e.sets[1][2] = "000000000000002a"
                    /\ e.sets[2][2] = "0000000000000034"

C16_Witness ==
    \E e \in OpsOf("Inject", B3Kind) :
        /\ e.ctx.traceID = U64(42)
        /\ e.ctx.spanID = U64(52)
        /\ e.ctx.origin = "synthetics"
        /\ samplingPriority(e.ctx) = [p |-> 1, ok |-> TRUE]
        /\ e.sets = << <<b3TraceIDHeader, "000000000000002a">>,
                       <<b3SpanIDHeader, "0000000000000034">>,
                       <<b3SampledHeader, "1">> >>

\* The previous tracestate of context x.
PreviousState(x) == MapGet(x.trace.propagatingTags, tracestateHeader)

\* The strings composeTracestate may return for context x.
Recomposed(x) ==
    {c.s : c \in {r \in {composeTracestate(x, samplingPriority(x).p, PreviousState(x), o)
                            : o \in Orders(DOMAIN x.trace.propagatingTags)}
                     : ~r.panicked}}

\* C17: W3C Inject writes the previous tracestate unchanged exactly when
\* ctx.updated is false and the previous tracestate starts with dd=; in every
\* other case (updated, no previous tracestate, one without dd= in front, no
\* propagating tags at all) it writes the string composeTracestate returns.
C17_TracestatePassThrough ==
    \A e \in OpsOf("Inject", W3cKind) :
        ~Invalid(e.ctx) =>
            /\ ~e.panicked
            /\ Written(e.sets, tracestateHeader) # {}
            /\ (~e.ctx.updated /\ HasPrefix(PreviousState(e.ctx), "dd="))
                    => Written(e.sets, tracestateHeader) = {PreviousState(e.ctx)}
            /\ ~(~e.ctx.updated /\ HasPrefix(PreviousState(e.ctx), "dd="))
                    => Written(e.sets, tracestateHeader) \subseteq Recomposed(e.ctx)

\* The sampled flag of context x: 01 for a sampling priority that is set and
\* at least auto-keep, else 00.
TraceFlags(x) ==
    IF ~x.trace.nil /\ x.trace.hasPriority /\ x.trace.priority >= 1
    THEN "01" ELSE "00"

\* C18: W3C Inject of a valid context writes traceparent first, as 00-, the
\* trace id as 32 zero-padded lower-case hexadecimal digits, -, the span id
\* as 16 such digits, -, and the flags: 01 exactly when a sampling priority
\* is set and at least auto-keep (1), and 00 otherwise.
C18_TraceparentFormat ==
    \A e \in OpsOf("Inject", W3cKind) :
        ~Invalid(e.ctx) =>
            /\ Len(e.sets) >= 1
            /\ e.sets[1][1] = traceparentHeader
            /\ Written(e.sets, traceparentHeader) = {e.sets[1][2]}
            /\ Len(e.sets[1][2]) = 55
            /\ SubSeq(e.sets[1][2], 1, 3) = "00-"
            /\ IsHexOf(SubSeq(e.sets[1][2], 4, 35), 32, e.ctx.traceID)
            /\ SubSeq(e.sets[1][2], 36, 36) = "-"
            /\ IsHexOf(SubSeq(e.sets[1][2], 37, 52), 16, e.ctx.spanID)
            /\ SubSeq(e.sets[1][2], 53, 53) = "-"
            /\ SubSeq(e.sets[1][2], 54, 55) = TraceFlags(e.ctx)

C18_Witness ==
    \E e \in OpsOf("Inject", W3cKind) :
        /\ e.ctx.traceID = U64(42)
        /\ e.ctx.spanID = U64(52)
        /\ ~e.ctx.trace.nil
        /\ e.ctx.trace.hasPriority
        /\ e.ctx.trace.priority = 2
        /\ e.sets[1] = <<traceparentHeader,
                "00-0000000000000000000000000000002a-0000000000000034-01">>

\* C23: B3 extraction of an x-b3-spanid longer than 16 characters uses its
\* last 16 characters, as for an over-long trace ID: when these and the other
\* B3 headers parse and the identifiers are not zero, Extract returns a
\* context whose spanID is the low 64 bits of the value, and no error.
C23_B3SpanIDTrailing16 ==
    \A e \in OpsOf("Extract", B3Kind) :
        \A v \in HeaderValues(e.before, b3SpanIDHeader) :
            (/\ Len(v) > 16
             /\ HeaderValues(e.before, b3SpanIDHeader) = {v}
             /\ ParseUint(Last16(v), 16).ok
             /\ HexLow64(v) # U64Zero
             /\ HeaderValues(e.before, b3TraceIDHeader) # {}
             /\ \A t \in HeaderValues(e.before, b3TraceIDHeader) :
                    B3TraceIDParse(t).ok /\ B3TraceIDParse(t).val # U64Zero
             /\ \A p \in HeaderValues(e.before, b3SampledHeader) : Atoi(p).ok)
                => /\ ~e.panicked
                   /\ ~e.out.isNil
                   /\ e.err = NoError
                   /\ e.out.ctx.spanID = HexLow64(v)

\* C26: W3C Inject of a context with nonzero traceID and spanID does not
\* crash, returns no error and writes both traceparent and tracestate, also
\* for a context without a trace and for one whose trace has no
\* propagatingTags map.
C26_W3CInjectNeverCrashes ==
    \A e \in OpsOf("Inject", W3cKind) :
        ~Invalid(e.ctx) =>
            /\ ~e.panicked
            /\ e.err = NoError
            /\ Written(e.sets, traceparentHeader) # {}
            /\ Written(e.sets, tracestateHeader) # {}

(***************************************************************************)
(* Properties of SpecTracestate.                                           *)
(***************************************************************************)

\* The calls of composeTracestate that returned.
Composed == {e \in LogEntries : e.op = "composeTracestate" /\ ~e.panicked}

\* The dd= segment of a tracestate: the list member before the first ",".
DdSegment(s) == Split(s, ",")[1]

\* The number of entries between the ";" of a segment.
EntryCount(seg) == Cardinality({i \in 1..Len(Split(seg, ";")) : Split(seg, ";")[i] # ""})

\* C8: the dd= segment composeTracestate produces is never longer than 256
\* bytes and never has more than 32 entries delimited by ";", whatever the
\* priority, the origin and the propagating tags.
C8_DdSegmentWithinLimits ==
    \A e \in Composed :
        /\ Len(DdSegment(e.sets[1][2])) <= 256
        /\ EntryCount(DdSegment(e.sets[1][2])) <= 32

\* C9: two calls of composeTracestate with the same span context, the same
\* priority and the same previous tracestate return the same string, also
\* when some tags are left out.
C9_ComposeDeterministic ==
    \A e1, e2 \in Composed : e1.ctx = e2.ctx => e1.sets = e2.sets

\* The members of a list written with separator sep.
Members(s, sep) == {Split(s, sep)[i] : i \in 1..Len(Split(s, sep))}

\* The entries of a dd= segment after its first one.
LaterEntries(seg) == SubSeq(Split(seg, ";"), 2, Len(Split(seg, ";")))

\* seg is dd=s:<priority>, then o:<origin> for an origin, then entries
\* t.<key>:<value>, with ";" between entries and none of them empty.
WellFormedDd(seg, priority, origin) ==
    /\ "" \notin Members(seg, ";")
    /\ Split(seg, ";")[1] = "dd=s:" \o Itoa(priority)
    /\ \A i \in 1..Len(LaterEntries(seg)) :
            IF i = 1 /\ origin # ""
            THEN HasPrefix(LaterEntries(seg)[i], "o:")
            ELSE HasPrefix(LaterEntries(seg)[i], "t.")

\* C21: every string composeTracestate returns is a list of non-empty
\* segments separated by ",", the first one dd=s:<priority> followed by
\* non-empty entries o:<origin> and t.<key>:<value> separated by ";": no
\* empty entry, no ";" at the end of the dd= segment, no "," at the end and
\* no ",,", also for an empty origin, no tags or no previous tracestate.
C21_TracestateWellFormed ==
    \A e \in Composed :
        /\ "" \notin Members(e.sets[1][2], ",")
        /\ WellFormedDd(DdSegment(e.sets[1][2]), samplingPriority(e.ctx).p,
                        e.ctx.origin)

\* The segments of the previous tracestate old that do not start with dd=,
\* in their order.
RECURSIVE OtherVendors(_)
OtherVendors(segs) ==
    IF Len(segs) = 0 THEN <<>>
    ELSE IF HasPrefix(segs[1], "dd=") THEN OtherVendors(Tail(segs))
    ELSE <<segs[1]>> \o OtherVendors(Tail(segs))

\* v is the segment whole cut before or after one of its ";".
CutAtBoundary(v, whole) ==
    /\ Len(v) < Len(whole)
    /\ SubSeq(whole, 1, Len(v)) = v
    /\ \/ SubSeq(whole, Len(v) + 1, Len(v) + 1) = ";"
       \/ SubSeq(v, Len(v), Len(v)) = ";"

\* Appending the segment seg to the string s would break a limit.
BreaksLimit(s, seg) ==
    \/ Len(s) + Len(seg) >= 255
    \/ Count(s, ";") + Count(seg, ";") >= 31

\* The segments after the dd= segment of the string s are the segments old
\* in their order: all of them, or the first ones, the last of them cut, or
\* followed in old by a segment that breaks a limit and has no ";" to be
\* cut at.
VendorsKept(s, old) ==
    LET Kept(vendors) ==
            /\ Len(vendors) <= Len(old)
            /\ \A i \in 1..(Len(vendors) - 1) : vendors[i] = old[i]
            /\ Len(vendors) > 0 =>
                    \/ vendors[Len(vendors)] = old[Len(vendors)]
                    \/ CutAtBoundary(vendors[Len(vendors)], old[Len(vendors)])
            /\ Len(vendors) < Len(old) =>
                    \/ /\ Len(vendors) > 0
                       /\ CutAtBoundary(vendors[Len(vendors)], old[Len(vendors)])
                    \/ BreaksLimit(s, old[Len(vendors) + 1])
    IN  Kept(Tail(Split(s, ",")))

\* The dd= segment seg holds nothing of another vendor: after s:<priority>
\* its entries are o:<origin> and t.<key>:<value>.
OnlyDdEntries(seg) ==
    /\ HasPrefix(seg, "dd=s:")
    /\ \A x \in Members(seg, ";") \ {Split(seg, ";")[1]} :
            x = "" \/ HasPrefix(x, "o:") \/ HasPrefix(x, "t.")

\* C22: after the dd= segment composeTracestate appends the segments of the
\* previous tracestate that do not start with dd=, in their order, each after
\* a ","; a segment that would break the limit of about 255 bytes or of 32
\* entries is cut at a ";", appended after a "," like the others, and no
\* segment is appended after it.
C22_VendorsInOrderCutAtLimit ==
    \A e \in Composed :
        /\ VendorsKept(e.sets[1][2], OtherVendors(Split(PreviousState(e.ctx), ",")))
        /\ OnlyDdEntries(DdSegment(e.sets[1][2]))

\* C25: composeTracestate returns a string and never crashes on an index or
\* slice out of range, also when the dd= segment holds 32 entries before the
\* previous tracestate is read, whatever that is, and when the dd= segment
\* is longer than 255 bytes and another vendor's segment follows.
C25_ComposeNeverCrashes ==
    \A e \in {x \in LogEntries : x.op = "composeTracestate"} : ~e.panicked

(***************************************************************************)
(* Properties of SpecConfig.                                               *)
(***************************************************************************)

\* The NewPropagator calls made so far.
Constructed == {e \in LogEntries : e.op = "NewPropagator"}

\* The selector that decides a direction: the first one set among the
\* direction's selector, its deprecated alias and the generic selector, or
\* "" when none is set.
Winning(env, name, deprecated) ==
    IF Getenv(env, name) # "" THEN Getenv(env, name)
    ELSE IF Getenv(env, deprecated) # "" THEN Getenv(env, deprecated)
    ELSE Getenv(env, headerPropagationStyle)

InjectSelector(r) ==
    Winning(r.env, headerPropagationStyleInject, headerPropagationStyleInjectDeprecated)

ExtractSelector(r) ==
    Winning(r.env, headerPropagationStyleExtract, headerPropagationStyleExtractDeprecated)

\* The built-in default list: first-party, plus B3 when cfg.B3 is set.
DefaultList(cfg) ==
    IF cfg.B3 THEN <<Propagator(DatadogKind, cfg), Propagator(B3Kind, cfg)>>
    ELSE <<Propagator(DatadogKind, cfg)>>

NoEnvironment == [n \in {} |-> ""]

\* The list of a direction decided by selector w alone.
Resolved(cfg, w) ==
    IF w = "" THEN DefaultList(cfg) ELSE getPropagators(cfg, w, NoEnvironment)

\* C19: NewPropagator uses an explicitly supplied propagator list for both
\* directions whatever the selectors are; without one, each direction's list
\* is the one of the first selector set among the direction's own selector,
\* its deprecated alias and the generic selector, and the default list
\* (first-party, plus B3 when cfg.B3 is set) when none of them is set.
C19_SelectorPrecedence ==
    \A r \in Constructed :
        /\ Len(r.propagators) > 0 =>
                r.injectors = r.propagators /\ r.extractors = r.propagators
        /\ Len(r.propagators) = 0 =>
                /\ r.injectors = Resolved(r.cfg, InjectSelector(r))
                /\ r.extractors = Resolved(r.cfg, ExtractSelector(r))
                /\ InjectSelector(r) = "" => r.injectors = DefaultList(r.cfg)
                /\ ExtractSelector(r) = "" => r.extractors = DefaultList(r.cfg)

C19_Witness ==
    \E r \in Constructed :
        /\ r.propagators = <<>>
        /\ ~r.cfg.B3
        /\ r.env[headerPropagationStyleInject] = "datadog"
        /\ r.env[headerPropagationStyleInjectDeprecated] = "b3"
        /\ r.env[headerPropagationStyle] = "none"
        /\ r.env[headerPropagationStyleExtract] = ""
        /\ r.env[headerPropagationStyleExtractDeprecated] = "datadog"
        /\ r.injectors = <<Propagator(DatadogKind, r.cfg)>>
        /\ r.extractors = <<Propagator(DatadogKind, r.cfg)>>

\* The format tokens of a selector, in lower case.
Tokens(w) == {ToLower(t) : t \in {Split(w, ",")[i] : i \in 1..Len(Split(w, ","))}}

RecognizedTokens == {"datadog", "b3", "b3multi", "none"}

KindsOf(list) == {list[i].kind : i \in 1..Len(list)}

\* What C20 says of one direction's list, decided by selector w.
SelectorRules(cfg, w, list) ==
    /\ ToLower(w) = "none" => list = <<>>
    /\ (w # "" /\ Tokens(w) \cap RecognizedTokens = {}) => list = DefaultList(cfg)
    /\ (w # "" /\ ToLower(w) # "none") =>
            /\ list # <<>>
            /\ "datadog" \in Tokens(w) => DatadogKind \in KindsOf(list)
            /\ Tokens(w) \cap {"b3", "b3multi"} # {} => B3Kind \in KindsOf(list)

\* C20: a selector that is the token none, in any letter case, gives an
\* empty list, so that the chain's Inject writes nothing and returns nil and
\* its Extract returns ErrSpanContextNotFound; a non-empty selector without
\* a recognized token gives the default list; unrecognized tokens are
\* skipped and the recognized tokens beside them are kept.
C20_NoneAndUnrecognizedTokens ==
    \A r \in Constructed :
        Len(r.propagators) = 0 =>
            /\ SelectorRules(r.cfg, InjectSelector(r), r.injectors)
            /\ SelectorRules(r.cfg, ExtractSelector(r), r.extractors)
            /\ ToLower(InjectSelector(r)) = "none" =>
                    \A e \in {x \in LogEntries : x.op = "ChainInject"} :
                        e.sets = <<>> /\ e.err = NoError /\ e.after = e.before
            /\ ToLower(ExtractSelector(r)) = "none" =>
                    \A e \in {x \in LogEntries : x.op = "ChainExtract"} :
                        e.out.isNil /\ e.err = ErrSpanContextNotFound

\* No two propagators of the list are of the same wire format.
EachFormatOnce(list) ==
    \A i, j \in 1..Len(list) : list[i].kind = list[j].kind => i = j

\* C27: the list getPropagators returns for a direction holds each wire
\* format at most once, for every selector, also one that repeats a token,
\* and for both values of cfg.B3, so that the chain never injects or
\* extracts the same format twice.
C27_EachFormatAtMostOnce ==
    /\ \A r \in Constructed :
            Len(r.propagators) = 0 =>
                EachFormatOnce(r.injectors) /\ EachFormatOnce(r.extractors)
    /\ \A e \in {x \in LogEntries : x.op \in {"ChainInject", "ChainExtract"}} :
            (\E r \in Constructed : Len(r.propagators) = 0) =>
                \A i, j \in 1..Len(e.calls) :
                    e.calls[i].prop.kind = e.calls[j].prop.kind => i = j

(***************************************************************************)
(* Properties of SpecLocks.                                                *)
(***************************************************************************)

\* C11: every read and every write of a trace's propagatingTags by the
\* propagation code happens while the accessing goroutine holds the trace's
\* mutex.
C11_TagsAccessedUnderMutex == \A e \in LogEntries : e.held
====
